---- MODULE Spec2Model ----
(***************************************************************************)
(* Task manager (localStorage-backed task list with reminders).            *)
(*                                                                         *)
(* Values.  A JavaScript string that the code inspects character by        *)
(* character (title, description, tag) is a sequence of one-character      *)
(* strings; a string that is only compared (status, priority) is a TLA+    *)
(* string, "" being the empty (falsy) string.  A date-like value           *)
(* (reminderTime, dueDate) is a record [tag, ms]: null, the empty string,  *)
(* a string that Date cannot parse, or a string that parses to ms.         *)
(* Timestamps written with toISOString() are the epoch milliseconds they   *)
(* encode.  An object literal handed to addTask/updateTask is a record     *)
(* with a field keys, the set of keys the object carries.  The value under *)
(* the storage key is its kind (no value, JSON text, text that JSON.parse  *)
(* rejects) together with the parsed collection when it is JSON text.      *)
(***************************************************************************)
EXTENDS Integers, Sequences, FiniteSets, TLC

\* ---------------------------------------------------------------- bounds
MaxTasks == 2          \* stored tasks are capped at this many
MaxRand  == 2          \* Math.random() suffixes are drawn from 1..MaxRand
MaxTicks == 3          \* the clock advances at most this many steps
MaxCrudTicks == 1      \* ... and at most this many where no reminder is scanned
MaxStarts == 2         \* startChecking is called at most this many times
MaxCalls == 1          \* TaskManager calls made while reminders are scanned

\* ------------------------------------------------------ program constants
CheckIntervalMs == 60000   \* setInterval period and half-width of the window
MaxTitleLen     == 100
MaxDescLen      == 500

Step    == CheckIntervalMs \div 2     \* one clock step, in milliseconds
MaxTime == MaxTicks * Step

\* ------------------------------------------------------------ JS values
Null     == [tag |-> "null",    ms |-> 0]
EmptyStr == [tag |-> "empty",   ms |-> 0]
BadDate  == [tag |-> "invalid", ms |-> 0]
DateStr(t) == [tag |-> "date",  ms |-> t]

\* JavaScript truthiness of a date-like value: null and "" are falsy.
Truthy(v) == v.tag \notin {"null", "empty"}

\* new Date(v).getTime() is NaN for an unparseable string.
IsNaNDate(v) == v.tag # "date"

WS == {" "}

RECURSIVE TrimStart(_)
TrimStart(s) ==
    IF s = <<>> THEN <<>>
    ELSE IF Head(s) \in WS THEN TrimStart(Tail(s)) ELSE s

RECURSIVE TrimEnd(_)
TrimEnd(s) ==
    IF s = <<>> THEN <<>>
    ELSE IF s[Len(s)] \in WS THEN TrimEnd(SubSeq(s, 1, Len(s) - 1)) ELSE s

\* String.prototype.trim
Trim(s) == TrimEnd(TrimStart(s))

\* tags.map(t => t.trim()).filter(t => t)
RECURSIVE TrimTags(_)
TrimTags(ts) ==
    IF ts = <<>> THEN <<>>
    ELSE LET t == Trim(Head(ts))
         IN  IF t = <<>> THEN TrimTags(Tail(ts))
             ELSE <<t>> \o TrimTags(Tail(ts))

Has(o, k) == k \in o.keys

\* ------------------------------------------------------------ Validation
validStatuses   == {"pending", "in-progress", "completed"}
validPriorities == {"low", "medium", "high"}

Digits == {"0", "1", "2", "3", "4", "5", "6", "7", "8", "9"}

\* /^([01]?[0-9]|2[0-3]):[0-5][0-9]$/
timeRegex(s) ==
    \/ /\ Len(s) = 4
       /\ s[1] \in Digits /\ s[2] = ":"
       /\ s[3] \in {"0", "1", "2", "3", "4", "5"} /\ s[4] \in Digits
    \/ /\ Len(s) = 5
       /\ \/ s[1] \in {"0", "1"} /\ s[2] \in Digits
          \/ s[1] = "2" /\ s[2] \in {"0", "1", "2", "3"}
       /\ s[3] = ":"
       /\ s[4] \in {"0", "1", "2", "3", "4", "5"} /\ s[5] \in Digits

\* Validation.validateTask: the errors array, in the order it is pushed.
validateErrors(task) ==
    (IF task.title = <<>> THEN <<"Title is required and must be a string">>
     ELSE IF Len(Trim(task.title)) = 0 THEN <<"Title cannot be empty">>
     ELSE IF Len(task.title) > MaxTitleLen
          THEN <<"Title cannot exceed 100 characters">>
     ELSE <<>>)
    \o (IF Len(task.description) > MaxDescLen
        THEN <<"Description cannot exceed 500 characters">> ELSE <<>>)
    \o (IF task.status # "" /\ task.status \notin validStatuses
        THEN <<"Status must be one of">> ELSE <<>>)
    \o (IF task.priority # "" /\ task.priority \notin validPriorities
        THEN <<"Priority must be one of">> ELSE <<>>)
    \o (IF Truthy(task.dueDate) /\ IsNaNDate(task.dueDate)
        THEN <<"Due date must be a valid date">> ELSE <<>>)
    \o (IF task.dueTime # <<>> /\ ~timeRegex(task.dueTime)
        THEN <<"Due time must be in HH:MM format">> ELSE <<>>)
    \o (IF task.reminderEnabled /\ Truthy(task.reminderTime)
           /\ IsNaNDate(task.reminderTime)
        THEN <<"Reminder time must be a valid date/time">> ELSE <<>>)
    \o (IF task.reminderEnabled /\ task.reminderMinutes < 0
        THEN <<"Reminder minutes must be a non-negative number">> ELSE <<>>)

validateTask(task) ==
    [isValid |-> validateErrors(task) = <<>>, errors |-> validateErrors(task)]

\* ------------------------------------------------------------- objects
\* Ids: `task_${Date.now()}_${Math.random().toString(36).substr(2, 9)}`
MkId(t, r) == [ms |-> t, rnd |-> r]
NoId       == [ms |-> 0 - 1, rnd |-> 0]     \* the id of no task (null result)
AbsentId   == [ms |-> 0, rnd |-> 0]         \* a well-formed id no task was given

TaskKeys == {"id", "title", "description", "status", "priority", "dueDate",
             "dueTime", "reminderEnabled", "reminderTime", "reminderMinutes",
             "reminderNotified", "tags", "createdAt", "updatedAt"}

\* An object literal with no key; the field values under absent keys are
\* placeholders that no operator reads.
Blank ==
    [keys |-> {}, id |-> NoId, title |-> <<>>, description |-> <<>>,
     status |-> "", priority |-> "", dueDate |-> Null, dueTime |-> <<>>,
     reminderEnabled |-> FALSE, reminderTime |-> Null, reminderMinutes |-> 0,
     reminderNotified |-> FALSE, tags |-> <<>>, createdAt |-> 0,
     updatedAt |-> 0]

\* The value TaskManager.getTask returns for null.
NoTask == [k \in TaskKeys |-> Blank[k]]

\* ---------------------------------------------------------------- state
VARIABLES
    raw,            \* localStorage.getItem(STORAGE_KEY): "null", "json", "garbage"
    storage,        \* JSON.parse of that value when it is JSON: the tasks
    now,            \* the wall clock, epoch milliseconds
    result,         \* outcome of the call completed by the last step
    scan,           \* position of the running checkReminders call
    checkInterval,  \* ReminderService.checkInterval
    notificationPermission,  \* ReminderService.notificationPermission
    timers,         \* setInterval timers by handle: next due time, or Cleared
    notifications,  \* the calls of showNotification made so far
    calls,          \* how many TaskManager calls were made (bounds the model)
    retimed,        \* ids whose reminderTime an updateTask call has changed
    scanErrors,     \* the times checkReminders caught and logged an error
    page,           \* the document: which scripts it loaded, whether the
                    \* session token is stored, and where it has got to
    db,             \* the server's database: the clients and sessions tables
    handlers,       \* the route handlers of the server that are awaiting
    response,       \* the response the server sent in the last step
    ended,          \* the sessions and clients deleted so far, and by what
    served          \* how many requests the server took (bounds the model)

vars == <<raw, storage, now, result, scan, checkInterval,
          notificationPermission, timers, notifications, calls, retimed,
          scanErrors, page, db, handlers, response, ended, served>>

\* Storage.getTasks: rejected when JSON.parse throws, [] when there is no
\* value under the key, the parsed array otherwise.
getTasks ==
    IF raw = "garbage" THEN [ok |-> FALSE, tasks |-> <<>>]
    ELSE IF raw = "null" THEN [ok |-> TRUE, tasks |-> <<>>]
    ELSE [ok |-> TRUE, tasks |-> storage]

\* Storage.saveTasks.  (The TaskManager actions below store the collection
\* their operator leaves, out.tasks, which is the one read when the call
\* fails, and the key holds JSON once a call has saved.)
saveTasks(tasks) == storage' = tasks /\ raw' = "json"

\* Storage.clearTasks
clearTasks == storage' = <<>> /\ raw' = "null"

Ids(tasks) == {tasks[i].id : i \in 1..Len(tasks)}

\* tasks.findIndex(task => task.id === id), 1-based; 0 stands for -1
findIndex(tasks, id) ==
    IF \E i \in 1..Len(tasks) : tasks[i].id = id
    THEN CHOOSE i \in 1..Len(tasks) :
            /\ tasks[i].id = id
            /\ \A j \in 1..(i - 1) : tasks[j].id # id
    ELSE 0

\* TaskManager.getTask: tasks.find(task => task.id === id) || null
getTask(tasks, id) ==
    IF findIndex(tasks, id) = 0 THEN NoTask ELSE tasks[findIndex(tasks, id)]

\* TaskManager.generateId
generateId(t, r) == MkId(t, r)

\* Mutant of buildTask: the title is stored as typed, not trimmed.
buildTaskNoTrim(taskData, t, r) ==
    [id               |-> generateId(t, r),
     title            |-> taskData.title,
     description      |-> IF Has(taskData, "description")
                          THEN Trim(taskData.description) ELSE <<>>,
     status           |-> IF Has(taskData, "status") /\ taskData.status # ""
                          THEN taskData.status ELSE "pending",
     priority         |-> IF Has(taskData, "priority") /\ taskData.priority # ""
                          THEN taskData.priority ELSE "medium",
     dueDate          |-> IF Has(taskData, "dueDate") /\ Truthy(taskData.dueDate)
                          THEN taskData.dueDate ELSE Null,
     dueTime          |-> IF Has(taskData, "dueTime")
                          THEN taskData.dueTime ELSE <<>>,
     reminderEnabled  |-> Has(taskData, "reminderEnabled")
                          /\ taskData.reminderEnabled,
     reminderTime     |-> IF Has(taskData, "reminderTime")
                             /\ Truthy(taskData.reminderTime)
                          THEN taskData.reminderTime ELSE Null,
     reminderMinutes  |-> IF Has(taskData, "reminderMinutes")
                          THEN taskData.reminderMinutes ELSE 0,
     reminderNotified |-> FALSE,
     tags             |-> IF Has(taskData, "tags")
                          THEN TrimTags(taskData.tags) ELSE <<>>,
     createdAt        |-> t,
     updatedAt        |-> t]

\* The task object literal built by TaskManager.addTask.
buildTask(taskData, t, r) ==
    [id               |-> generateId(t, r),
     title            |-> Trim(taskData.title),
     description      |-> IF Has(taskData, "description")
                          THEN Trim(taskData.description) ELSE <<>>,
     status           |-> IF Has(taskData, "status") /\ taskData.status # ""
                          THEN taskData.status ELSE "pending",
     priority         |-> IF Has(taskData, "priority") /\ taskData.priority # ""
                          THEN taskData.priority ELSE "medium",
     dueDate          |-> IF Has(taskData, "dueDate") /\ Truthy(taskData.dueDate)
                          THEN taskData.dueDate ELSE Null,
     dueTime          |-> IF Has(taskData, "dueTime")
                          THEN taskData.dueTime ELSE <<>>,
     reminderEnabled  |-> Has(taskData, "reminderEnabled")
                          /\ taskData.reminderEnabled,
     reminderTime     |-> IF Has(taskData, "reminderTime")
                             /\ Truthy(taskData.reminderTime)
                          THEN taskData.reminderTime ELSE Null,
     reminderMinutes  |-> IF Has(taskData, "reminderMinutes")
                          THEN taskData.reminderMinutes ELSE 0,
     reminderNotified |-> FALSE,
     tags             |-> IF Has(taskData, "tags")
                          THEN TrimTags(taskData.tags) ELSE <<>>,
     createdAt        |-> t,
     updatedAt        |-> t]

\* Mutant of addTask: the task is pushed and saved before it is validated.
addTaskSaveFirst(tasks, taskData, t, r) ==
    IF ~Has(taskData, "title")
    THEN [status |-> "error", err |-> "TypeError", ret |-> NoTask,
          tasks |-> tasks]
    ELSE LET task == buildTask(taskData, t, r)
         IN  IF ~validateTask(task).isValid
             THEN [status |-> "error", err |-> "validation", ret |-> NoTask,
                   tasks |-> Append(tasks, task)]
             ELSE [status |-> "ok", err |-> "", ret |-> task,
                   tasks |-> Append(tasks, task)]

\* TaskManager.addTask on the collection it read: the outcome and the
\* collection it leaves in storage.
addTask(tasks, taskData, t, r) ==
    IF ~Has(taskData, "title")
    THEN [status |-> "error", err |-> "TypeError", ret |-> NoTask,
          tasks |-> tasks]
    ELSE LET task == buildTask(taskData, t, r)
         IN  IF ~validateTask(task).isValid
             THEN [status |-> "error", err |-> "validation", ret |-> NoTask,
                   tasks |-> tasks]
             ELSE [status |-> "ok", err |-> "", ret |-> task,
                   tasks |-> Append(tasks, task)]

\* The statistics object of TaskManager.getStats, here of no call.
NoStats ==
    [total |-> 0, pending |-> 0, inProgress |-> 0, completed |-> 0,
     highPriority |-> 0]

NoResult ==
    [op |-> "none", status |-> "ok", err |-> "", id |-> NoId, arg |-> Blank,
     ret |-> NoTask, list |-> <<>>, stats |-> NoStats, before |-> <<>>]

\* The rejection of a TaskManager call whose Storage.getTasks() rejected.
StorageError(op, id, arg) ==
    [NoResult EXCEPT !.op = op, !.status = "error", !.err = "storage",
                     !.id = id, !.arg = arg]

\* The tables as the migration creates them: no rows, and the AUTOINCREMENT
\* counter of clients.id and the supply of random session tokens unused.
EmptyDb ==
    [clients |-> {}, sessions |-> {}, nextClientId |-> 1, nextToken |-> 1]

NoToken == 0                \* no Authorization header, no sessionToken

NoResponse ==
    [kind |-> "none", status |-> 0, email |-> "", token |-> NoToken,
     clientId |-> 0]

\* The server has not been asked anything.
NoServer ==
    /\ db = EmptyDb
    /\ handlers = {}
    /\ response = NoResponse
    /\ ended = {}
    /\ served = 0

ServerUnchanged == UNCHANGED <<db, handlers, response, ended, served>>

\* A step that is neither a counted TaskManager call nor a step of the
\* server.
Uncounted == UNCHANGED calls /\ ServerUnchanged

NullHandle == 0             \* checkInterval: null
Cleared    == 0 - 1         \* a timer that clearInterval has cancelled

\* checkReminders: idle, or in its loop ("run"), or awaiting markAsNotified
\* ("mark"), or past its loop ("done"); the snapshot it iterates, the index
\* it has reached, the time it took as now, the indices it notified, and
\* the collection markAsNotified read.
NoScan == [pc |-> "idle", snap |-> <<>>, i |-> 0, at |-> 0, sent |-> {},
           marksnap |-> <<>>]

\* The task page with auth script loaded, a session token stored and the
\* DOMContentLoaded handler run to its end.
Loaded == [auth |-> TRUE, token |-> TRUE, at |-> "index"]

Init ==
    /\ raw = "null"
    /\ storage = <<>>
    /\ now = 0
    /\ result = NoResult
    /\ scan = NoScan
    /\ checkInterval = NullHandle
    /\ notificationPermission = "default"
    /\ timers = <<>>
    /\ notifications = {}
    /\ calls = 0
    /\ retimed = {}
    /\ scanErrors = {}
    /\ page = Loaded
    /\ NoServer

ReminderUnchanged ==
    UNCHANGED <<scan, checkInterval, notificationPermission, timers,
                notifications, scanErrors, page>>

\* Commands.add / the form's submit handler without a task id
AddTask(taskData) ==
    /\ Len(storage) < MaxTasks
    /\ IF ~getTasks.ok
       THEN /\ result' = StorageError("add", NoId, taskData)
            /\ UNCHANGED <<raw, storage>>
       ELSE \E r \in 1..MaxRand :
              LET out == addTask(getTasks.tasks, taskData, now, r)
              IN  /\ storage' = out.tasks
                  /\ raw' = IF out.status = "ok" THEN "json" ELSE raw
                  /\ result' = [op |-> "add", status |-> out.status,
                                err |-> out.err, id |-> out.ret.id,
                                arg |-> taskData, ret |-> out.ret,
                                list |-> <<>>, stats |-> NoStats,
                                before |-> getTasks.tasks]
    /\ UNCHANGED <<now, retimed>>
    /\ ReminderUnchanged

\* Time passes.  A checkReminders call runs in consecutive microtasks, so
\* the clock does not advance while one is running.
Tick(limit) ==
    /\ now < limit
    /\ scan.pc = "idle"
    /\ now' = now + Step
    /\ result' = NoResult
    /\ UNCHANGED <<raw, storage, retimed>>
    /\ ReminderUnchanged

\* Mutant of mergeTask: id and createdAt are not restored after the spread.
mergeTaskNoPreserve(old, updates, t) ==
    LET spread == [k \in TaskKeys |->
                     IF k \in updates.keys THEN updates[k] ELSE old[k]]
        kept   == [spread EXCEPT !.updatedAt = t]
        reset  == IF /\ Has(updates, "reminderTime")
                     /\ Truthy(updates.reminderTime)
                     /\ updates.reminderTime # old.reminderTime
                  THEN [kept EXCEPT !.reminderNotified = FALSE]
                  ELSE kept
    IN  IF Has(updates, "tags")
        THEN [reset EXCEPT !.tags = TrimTags(updates.tags)]
        ELSE reset

\* Mutant of mergeTask: reminderNotified is reset whenever updates carries
\* a reminderTime, changed or not.
mergeTaskResetAny(old, updates, t) ==
    LET spread == [k \in TaskKeys |->
                     IF k \in updates.keys THEN updates[k] ELSE old[k]]
        kept   == [spread EXCEPT !.id = old.id,
                                 !.createdAt = old.createdAt,
                                 !.updatedAt = t]
        reset  == IF /\ Has(updates, "reminderTime")
                     /\ Truthy(updates.reminderTime)
                  THEN [kept EXCEPT !.reminderNotified = FALSE]
                  ELSE kept
    IN  IF Has(updates, "tags")
        THEN [reset EXCEPT !.tags = TrimTags(updates.tags)]
        ELSE reset

\* Mutant of mergeTask: updatedAt is not renewed after the spread.
mergeTaskStaleStamp(old, updates, t) ==
    LET spread == [k \in TaskKeys |->
                     IF k \in updates.keys THEN updates[k] ELSE old[k]]
        kept   == [spread EXCEPT !.id = old.id,
                                 !.createdAt = old.createdAt]
        reset  == IF /\ Has(updates, "reminderTime")
                     /\ Truthy(updates.reminderTime)
                     /\ updates.reminderTime # old.reminderTime
                  THEN [kept EXCEPT !.reminderNotified = FALSE]
                  ELSE kept
    IN  IF Has(updates, "tags")
        THEN [reset EXCEPT !.tags = TrimTags(updates.tags)]
        ELSE reset

\* The object literal `updatedTask` of TaskManager.updateTask: the stored
\* task overlaid with updates, id and createdAt kept, updatedAt renewed,
\* then the reminderNotified reset and the tags normalisation.
mergeTask(old, updates, t) ==
    LET spread == [k \in TaskKeys |->
                     IF k \in updates.keys THEN updates[k] ELSE old[k]]
        kept   == [spread EXCEPT !.id = old.id,
                                 !.createdAt = old.createdAt,
                                 !.updatedAt = t]
        reset  == IF /\ Has(updates, "reminderTime")
                     /\ Truthy(updates.reminderTime)
                     /\ updates.reminderTime # old.reminderTime
                  THEN [kept EXCEPT !.reminderNotified = FALSE]
                  ELSE kept
    IN  IF Has(updates, "tags")
        THEN [reset EXCEPT !.tags = TrimTags(updates.tags)]
        ELSE reset

\* Mutant of updateTask: the merged task is stored before it is validated.
updateTaskSaveFirst(tasks, id, updates, t) ==
    LET index == findIndex(tasks, id)
    IN  IF index = 0
        THEN [status |-> "error", err |-> "Task not found", ret |-> NoTask,
              tasks |-> tasks]
        ELSE LET updatedTask == mergeTask(tasks[index], updates, t)
                 saved == [tasks EXCEPT ![index] = updatedTask]
             IN  IF ~validateTask(updatedTask).isValid
                 THEN [status |-> "error", err |-> "validation",
                       ret |-> NoTask, tasks |-> saved]
                 ELSE [status |-> "ok", err |-> "", ret |-> updatedTask,
                       tasks |-> saved]

\* Mutant of updateTask: the merged task is stored at the end of the
\* collection instead of in its place.
updateTaskMoveLast(tasks, id, updates, t) ==
    LET index == findIndex(tasks, id)
    IN  IF index = 0
        THEN [status |-> "error", err |-> "Task not found", ret |-> NoTask,
              tasks |-> tasks]
        ELSE LET updatedTask == mergeTask(tasks[index], updates, t)
             IN  IF ~validateTask(updatedTask).isValid
                 THEN [status |-> "error", err |-> "validation",
                       ret |-> NoTask, tasks |-> tasks]
                 ELSE [status |-> "ok", err |-> "", ret |-> updatedTask,
                       tasks |-> Append(SubSeq(tasks, 1, index - 1)
                                          \o SubSeq(tasks, index + 1,
                                                    Len(tasks)),
                                        updatedTask)]

\* TaskManager.updateTask on the collection it read.
updateTask(tasks, id, updates, t) ==
    LET index == findIndex(tasks, id)
    IN  IF index = 0
        THEN [status |-> "error", err |-> "Task not found", ret |-> NoTask,
              tasks |-> tasks]
        ELSE LET updatedTask == mergeTask(tasks[index], updates, t)
             IN  IF ~validateTask(updatedTask).isValid
                 THEN [status |-> "error", err |-> "validation",
                       ret |-> NoTask, tasks |-> tasks]
                 ELSE [status |-> "ok", err |-> "", ret |-> updatedTask,
                       tasks |-> [tasks EXCEPT ![index] = updatedTask]]

\* tasks.splice(index, 1)
splice(tasks, index) ==
    SubSeq(tasks, 1, index - 1) \o SubSeq(tasks, index + 1, Len(tasks))

\* Mutant of deleteTask: no test of index === -1, so that splice(-1, 1)
\* removes the last task.
deleteTaskNoCheck(tasks, id) ==
    LET index == findIndex(tasks, id)
    IN  IF index = 0
        THEN [status |-> "ok", err |-> "", ret |-> NoTask,
              tasks |-> SubSeq(tasks, 1, Len(tasks) - 1)]
        ELSE [status |-> "ok", err |-> "", ret |-> tasks[index],
              tasks |-> splice(tasks, index)]

\* TaskManager.deleteTask on the collection it read.
deleteTask(tasks, id) ==
    LET index == findIndex(tasks, id)
    IN  IF index = 0
        THEN [status |-> "error", err |-> "Task not found", ret |-> NoTask,
              tasks |-> tasks]
        ELSE [status |-> "ok", err |-> "", ret |-> tasks[index],
              tasks |-> splice(tasks, index)]

\* Commands.update / the form's submit handler with a task id /
\* UIController.toggleComplete
UpdateTask(id, updates) ==
    /\ IF ~getTasks.ok
       THEN /\ result' = StorageError("update", id, updates)
            /\ UNCHANGED <<raw, storage, retimed>>
       ELSE LET out == updateTask(getTasks.tasks, id, updates, now)
                old == getTask(getTasks.tasks, id)
            IN  /\ storage' = out.tasks
                /\ raw' = IF out.status = "ok" THEN "json" ELSE raw
                /\ result' = [op |-> "update", status |-> out.status,
                              err |-> out.err, id |-> id, arg |-> updates,
                              ret |-> out.ret, list |-> <<>>,
                              stats |-> NoStats, before |-> getTasks.tasks]
                /\ retimed' =
                     IF /\ out.status = "ok"
                        /\ out.ret.reminderTime # old.reminderTime
                     THEN retimed \cup {id} ELSE retimed
    /\ UNCHANGED now
    /\ ReminderUnchanged

\* Commands.delete / UIController.deleteTask
DeleteTask(id) ==
    /\ IF ~getTasks.ok
       THEN /\ result' = StorageError("delete", id, Blank)
            /\ UNCHANGED <<raw, storage>>
       ELSE LET out == deleteTask(getTasks.tasks, id)
            IN  /\ storage' = out.tasks
                /\ raw' = IF out.status = "ok" THEN "json" ELSE raw
                /\ result' = [op |-> "delete", status |-> out.status,
                              err |-> out.err, id |-> id, arg |-> Blank,
                              ret |-> out.ret, list |-> <<>>,
                              stats |-> NoStats, before |-> getTasks.tasks]
    /\ UNCHANGED <<now, retimed>>
    /\ ReminderUnchanged

\* ------------------------------------------------------ inputs explored
Obj(keys, o) == [o EXCEPT !.keys = keys]

\* addTask arguments: a minimal one, one with padded strings and an empty
\* tag, and ones that addTask rejects.
TaskInputs ==
    { Obj({"title"}, [Blank EXCEPT !.title = <<"a">>]),
      Obj({"title", "description", "status", "priority", "tags"},
          [Blank EXCEPT !.title = <<" ", "B", " ">>,
                        !.description = <<"c", " ">>,
                        !.status = "in-progress", !.priority = "high",
                        !.tags = << <<" ", "t">>, <<" ">> >>]),
      Obj({"title", "status"},
          [Blank EXCEPT !.title = <<"a">>, !.status = "bogus"]),
      Obj({"title"}, [Blank EXCEPT !.title = <<" ">>]),
      Obj({"priority"}, [Blank EXCEPT !.priority = "low"]) }

\* updateTask arguments
TaskUpdates ==
    { Obj({"status"}, [Blank EXCEPT !.status = "completed"]),
      Obj({"priority"}, [Blank EXCEPT !.priority = "urgent"]),
      Obj({"id", "createdAt", "updatedAt", "title"},
          [Blank EXCEPT !.id = AbsentId, !.createdAt = MaxTime + Step,
                        !.updatedAt = 0 - Step, !.title = <<"c", " ">>]),
      Obj({"title"}, [Blank EXCEPT !.title = <<>>]),
      Obj({"status"}, [Blank EXCEPT !.status = ""]) }

\* Ids a caller may pass: those of stored tasks and one that is not stored.
CallIds == Ids(storage) \cup {AbsentId}

\* ------------------------------------------------------ ReminderService
\* Mutant of isDue: the lower edge of the window is inclusive.
isDueInclusive(task, at) ==
    /\ task.reminderEnabled
    /\ Truthy(task.reminderTime)
    /\ ~task.reminderNotified
    /\ task.status # "completed"
    /\ ~IsNaNDate(task.reminderTime)
    /\ task.reminderTime.ms - at <= CheckIntervalMs
    /\ task.reminderTime.ms - at >= 0 - CheckIntervalMs

\* Mutant of isDue: the window is half as wide and open at both ends.
isDueNarrow(task, at) ==
    /\ task.reminderEnabled
    /\ Truthy(task.reminderTime)
    /\ ~task.reminderNotified
    /\ task.status # "completed"
    /\ ~IsNaNDate(task.reminderTime)
    /\ task.reminderTime.ms - at < Step
    /\ task.reminderTime.ms - at > 0 - Step

\* Mutant of isDue: the window has no lower edge.
isDueNoLowerEdge(task, at) ==
    /\ task.reminderEnabled
    /\ Truthy(task.reminderTime)
    /\ ~task.reminderNotified
    /\ task.status # "completed"
    /\ ~IsNaNDate(task.reminderTime)
    /\ task.reminderTime.ms - at <= CheckIntervalMs

\* The test of the loop body of checkReminders on one task of the snapshot.
isDue(task, at) ==
    /\ task.reminderEnabled
    /\ Truthy(task.reminderTime)
    /\ ~task.reminderNotified
    /\ task.status # "completed"
    /\ ~IsNaNDate(task.reminderTime)
    /\ task.reminderTime.ms - at <= CheckIntervalMs
    /\ task.reminderTime.ms - at > 0 - CheckIntervalMs

\* The first index >= i of a due task of the snapshot, 0 when there is none.
nextDue(snap, i, at) ==
    IF \E j \in i..Len(snap) : isDue(snap[j], at)
    THEN CHOOSE j \in i..Len(snap) :
            /\ isDue(snap[j], at)
            /\ \A k \in i..(j - 1) : ~isDue(snap[k], at)
    ELSE 0

\* ReminderService.showNotification: the call, and whether a Notification
\* was constructed.
showNotification(task, at) ==
    [tag |-> task.id, reminderTime |-> task.reminderTime, at |-> at,
     shown |-> notificationPermission = "granted"]

\* ReminderService.markAsNotified after its read: the collection it saves.
markAsNotified(tasks, taskId) ==
    LET index == findIndex(tasks, taskId)
    IN  IF index = 0 THEN tasks
        ELSE [tasks EXCEPT ![index].reminderNotified = TRUE]

\* checkReminders up to its first await: Storage.getTasks() has read; a
\* rejected read is caught and logged, and the call is over.
beginScan ==
    IF ~getTasks.ok THEN NoScan
    ELSE [pc |-> "run", snap |-> getTasks.tasks, i |-> 1, at |-> now,
          sent |-> {}, marksnap |-> <<>>]

\* The catch block of checkReminders: console.error, nothing else.
logScanError ==
    scanErrors' = IF getTasks.ok THEN scanErrors ELSE scanErrors \cup {now}

\* ReminderService.startChecking
startChecking ==
    /\ Len(timers) < MaxStarts
    /\ scan.pc = "idle"
    /\ scan' = beginScan
    /\ logScanError
    /\ timers' = Append(timers, now + CheckIntervalMs)
    /\ checkInterval' = Len(timers) + 1

\* ReminderService.init: the permission the browser reports or the user
\* grants, then startChecking.
ReminderInit(permission) ==
    /\ timers = <<>>
    /\ notificationPermission' = permission
    /\ startChecking
    /\ result' = NoResult
    /\ UNCHANGED <<raw, storage, now, notifications, retimed>>

\* ReminderService.startChecking called once more
StartChecking ==
    /\ timers # <<>>
    /\ startChecking
    /\ result' = NoResult
    /\ UNCHANGED <<raw, storage, now, notificationPermission, notifications,
                   retimed, page>>

\* ReminderService.stopChecking
StopChecking ==
    /\ IF checkInterval # NullHandle
       THEN /\ timers' = [timers EXCEPT ![checkInterval] = Cleared]
            /\ checkInterval' = NullHandle
       ELSE UNCHANGED <<timers, checkInterval>>
    /\ result' = NoResult
    /\ UNCHANGED <<raw, storage, now, scan, notificationPermission,
                   notifications, retimed, scanErrors, page>>

\* Mutant of TimerFire: a scan whose read fails cancels its timer.
TimerFireAbort(h) ==
    /\ timers[h] # Cleared
    /\ now >= timers[h]
    /\ scan.pc = "idle"
    /\ scan' = beginScan
    /\ logScanError
    /\ timers' = [timers EXCEPT ![h] = IF getTasks.ok
                                       THEN now + CheckIntervalMs
                                       ELSE Cleared]
    /\ result' = NoResult
    /\ UNCHANGED <<raw, storage, now, checkInterval, notificationPermission,
                   notifications, retimed, page>>

\* The setInterval callback of timer h runs: checkReminders starts.
TimerFire(h) ==
    /\ timers[h] # Cleared
    /\ now >= timers[h]
    /\ scan.pc = "idle"
    /\ scan' = beginScan
    /\ logScanError
    /\ timers' = [timers EXCEPT ![h] = now + CheckIntervalMs]
    /\ result' = NoResult
    /\ UNCHANGED <<raw, storage, now, checkInterval, notificationPermission,
                   notifications, retimed, page>>

\* checkReminders resumes: the for loop runs over the snapshot up to the
\* next due task, shows its notification and calls markAsNotified, which
\* reads the collection and awaits; or the loop ends.
ScanRun ==
    /\ scan.pc = "run"
    /\ LET j == nextDue(scan.snap, scan.i, scan.at)
       IN  IF j = 0
           THEN /\ scan' = [scan EXCEPT !.pc = "done",
                                        !.i = Len(scan.snap) + 1]
                /\ UNCHANGED notifications
           ELSE /\ notifications' =
                      notifications
                        \cup {showNotification(scan.snap[j], scan.at)}
                /\ scan' = [scan EXCEPT !.pc = "mark", !.i = j,
                                        !.sent = @ \cup {j},
                                        !.marksnap = getTasks.tasks]
    /\ result' = NoResult
    /\ UNCHANGED <<raw, storage, now, checkInterval, notificationPermission,
                   timers, retimed, scanErrors, page>>

\* Mutant of MarkWrite: markAsNotified sets the flag in the collection as
\* it is stored at the time of the write.
MarkWriteFresh ==
    /\ scan.pc = "mark"
    /\ IF findIndex(getTasks.tasks, scan.snap[scan.i].id) # 0
       THEN saveTasks(markAsNotified(getTasks.tasks, scan.snap[scan.i].id))
       ELSE UNCHANGED <<raw, storage>>
    /\ scan' = [scan EXCEPT !.pc = "run", !.i = scan.i + 1,
                            !.marksnap = <<>>]
    /\ result' = [NoResult EXCEPT !.op = "mark",
                                  !.id = scan.snap[scan.i].id,
                                  !.list = scan.marksnap,
                                  !.before = getTasks.tasks]
    /\ UNCHANGED <<now, checkInterval, notificationPermission, timers,
                   notifications, retimed, scanErrors, page>>

\* markAsNotified resumes: when the collection it read holds the task, it
\* sets the flag there and saves that collection; checkReminders then goes
\* on with the next task.  The step records the collection markAsNotified
\* had read (list) and the one its write replaces (before).
MarkWrite ==
    /\ scan.pc = "mark"
    /\ IF findIndex(scan.marksnap, scan.snap[scan.i].id) # 0
       THEN saveTasks(markAsNotified(scan.marksnap, scan.snap[scan.i].id))
       ELSE UNCHANGED <<raw, storage>>
    /\ scan' = [scan EXCEPT !.pc = "run", !.i = scan.i + 1,
                            !.marksnap = <<>>]
    /\ result' = [NoResult EXCEPT !.op = "mark",
                                  !.id = scan.snap[scan.i].id,
                                  !.list = scan.marksnap,
                                  !.before = getTasks.tasks]
    /\ UNCHANGED <<now, checkInterval, notificationPermission, timers,
                   notifications, retimed, scanErrors, page>>

\* checkReminders returns.
ScanReturn ==
    /\ scan.pc = "done"
    /\ scan' = NoScan
    /\ result' = NoResult
    /\ UNCHANGED <<raw, storage, now, checkInterval, notificationPermission,
                   timers, notifications, retimed, scanErrors, page>>

\* The filter callback of getUpcomingReminders; `reminderTime > now` is
\* false for a Date that is NaN.
isUpcoming(task, t) ==
    /\ task.reminderEnabled
    /\ Truthy(task.reminderTime)
    /\ task.status # "completed"
    /\ ~IsNaNDate(task.reminderTime)
    /\ task.reminderTime.ms > t

\* Array.prototype.sort with (a, b) => timeA - timeB, which is stable:
\* a task goes behind the tasks whose time is not later than its own.
RECURSIVE insertByTime(_, _)
insertByTime(sorted, task) ==
    IF sorted = <<>> THEN <<task>>
    ELSE IF task.reminderTime.ms < Head(sorted).reminderTime.ms
         THEN <<task>> \o sorted
         ELSE <<Head(sorted)>> \o insertByTime(Tail(sorted), task)

RECURSIVE sortByTime(_)
sortByTime(tasks) ==
    IF tasks = <<>> THEN <<>>
    ELSE insertByTime(sortByTime(SubSeq(tasks, 1, Len(tasks) - 1)),
                      tasks[Len(tasks)])

\* ReminderService.getUpcomingReminders at time t; [] when the read fails.
getUpcomingReminders(t) ==
    IF ~getTasks.ok THEN <<>>
    ELSE sortByTime(SelectSeq(getTasks.tasks,
                              LAMBDA task : isUpcoming(task, t)))

\* ReminderService.getUpcomingReminders is called.
GetUpcomingReminders ==
    /\ result' = [NoResult EXCEPT !.op = "upcoming",
                                  !.list = getUpcomingReminders(now),
                                  !.before = getTasks.tasks]
    /\ UNCHANGED <<raw, storage, now, retimed>>
    /\ ReminderUnchanged

\* addTask arguments that carry a reminder
ReminderInputs ==
    { Obj({"title", "reminderEnabled", "reminderTime", "reminderMinutes"},
          [Blank EXCEPT !.title = <<"a">>, !.reminderEnabled = TRUE,
                        !.reminderTime = DateStr(t), !.reminderMinutes = 5])
      : t \in {0, 3 * Step} }

\* updateTask arguments that touch the fields checkReminders reads
ReminderUpdates ==
    { Obj({"status"}, [Blank EXCEPT !.status = "completed"]),
      Obj({"status"}, [Blank EXCEPT !.status = "pending"]),
      Obj({"reminderTime"}, [Blank EXCEPT !.reminderTime = DateStr(3 * Step)]),
      Obj({"reminderTime"}, [Blank EXCEPT !.reminderTime = Null]),
      Obj({"reminderEnabled"}, [Blank EXCEPT !.reminderEnabled = FALSE]),
      Obj({"reminderNotified"}, [Blank EXCEPT !.reminderNotified = FALSE]) }

\* The collections addTask leaves after one or two calls at time 0.
InitialCollections ==
    { addTask(<<>>, d, 0, 1).tasks : d \in ReminderInputs }
    \cup
    { addTask(addTask(<<>>, d1, 0, 1).tasks, d2, 0, 2).tasks :
        d1 \in ReminderInputs, d2 \in ReminderInputs }

InitReminder ==
    /\ raw = "json"
    /\ storage \in InitialCollections
    /\ now = 0
    /\ result = NoResult
    /\ scan = NoScan
    /\ checkInterval = NullHandle
    /\ notificationPermission = "default"
    /\ timers = <<>>
    /\ notifications = {}
    /\ calls = 0
    /\ retimed = {}
    /\ scanErrors = {}
    /\ page = Loaded
    /\ NoServer

\* A TaskManager call, counted.
Counted(call) ==
    calls < MaxCalls /\ call /\ calls' = calls + 1 /\ ServerUnchanged

NextReminder ==
    \/ \E id \in Ids(storage) : \E updates \in ReminderUpdates :
          Counted(UpdateTask(id, updates))
    \/ \E id \in Ids(storage) : Counted(DeleteTask(id))
    \/ \E permission \in {"granted", "denied"} :
          ReminderInit(permission) /\ UNCHANGED page /\ Uncounted
    \/ StartChecking /\ Uncounted
    \/ StopChecking /\ Uncounted
    \/ \E h \in 1..Len(timers) : TimerFire(h) /\ Uncounted
    \/ ScanRun /\ Uncounted
    \/ MarkWrite /\ Uncounted
    \/ ScanReturn /\ Uncounted
    \/ GetUpcomingReminders /\ Uncounted
    \/ Tick(MaxTime) /\ Uncounted

SpecReminder == InitReminder /\ [][NextReminder]_vars

Next ==
    \/ \E taskData \in TaskInputs : AddTask(taskData) /\ Uncounted
    \/ \E id \in CallIds : \E updates \in TaskUpdates :
          UpdateTask(id, updates) /\ Uncounted
    \/ \E id \in CallIds : DeleteTask(id) /\ Uncounted
    \/ Tick(MaxCrudTicks * Step) /\ Uncounted

Spec == Init /\ [][Next]_vars

\* ------------------------------------------------------------- queries
UpperCase == <<"A", "B", "C", "D", "E", "F", "G", "H", "I", "J", "K", "L", "M",
               "N", "O", "P", "Q", "R", "S", "T", "U", "V", "W", "X", "Y", "Z">>
LowerCase == <<"a", "b", "c", "d", "e", "f", "g", "h", "i", "j", "k", "l", "m",
               "n", "o", "p", "q", "r", "s", "t", "u", "v", "w", "x", "y", "z">>

\* String.prototype.toLowerCase
toLowerCase(s) ==
    [i \in 1..Len(s) |->
        IF \E k \in 1..Len(UpperCase) : UpperCase[k] = s[i]
        THEN LowerCase[CHOOSE k \in 1..Len(UpperCase) : UpperCase[k] = s[i]]
        ELSE s[i]]

\* String.prototype.includes
includes(s, sub) ==
    \E i \in 0..(Len(s) - Len(sub)) : SubSeq(s, i + 1, i + Len(sub)) = sub

DayMs == 86400000

\* Date.prototype.toDateString: the calendar day, or "Invalid Date".
toDateString(v) ==
    IF IsNaNDate(v) THEN [valid |-> FALSE, day |-> 0]
    ELSE [valid |-> TRUE, day |-> v.ms \div DayMs]

\* A criteria object: the keys it carries and their values.
NoCriteria ==
    [keys |-> {}, status |-> "", priority |-> "", dueDate |-> Null,
     tag |-> <<>>]

\* Mutant of matchesCriteria: the tag is compared as written.
matchesCriteriaCaseSensitive(task, criteria) ==
    /\ (Has(criteria, "status") /\ criteria.status # "")
          => task.status = criteria.status
    /\ (Has(criteria, "priority") /\ criteria.priority # "")
          => task.priority = criteria.priority
    /\ (Has(criteria, "dueDate") /\ Truthy(criteria.dueDate))
          => /\ Truthy(task.dueDate)
             /\ toDateString(task.dueDate) = toDateString(criteria.dueDate)
    /\ (Has(criteria, "tag") /\ criteria.tag # <<>>)
          => \E k \in 1..Len(task.tags) : task.tags[k] = criteria.tag

\* The four filter callbacks of TaskManager.filterTasks, each applied only
\* when the criterion is truthy.
matchesCriteria(task, criteria) ==
    /\ (Has(criteria, "status") /\ criteria.status # "")
          => task.status = criteria.status
    /\ (Has(criteria, "priority") /\ criteria.priority # "")
          => task.priority = criteria.priority
    /\ (Has(criteria, "dueDate") /\ Truthy(criteria.dueDate))
          => /\ Truthy(task.dueDate)
             /\ toDateString(task.dueDate) = toDateString(criteria.dueDate)
    /\ (Has(criteria, "tag") /\ criteria.tag # <<>>)
          => \E k \in 1..Len(task.tags) :
                toLowerCase(task.tags[k]) = toLowerCase(criteria.tag)

\* TaskManager.filterTasks on the collection it read.
filterTasks(tasks, criteria) ==
    SelectSeq(tasks, LAMBDA task : matchesCriteria(task, criteria))

\* Mutant of matchesSearch: the tags are not searched.
matchesSearchNoTags(task, searchTerm) ==
    \/ includes(toLowerCase(task.title), searchTerm)
    \/ includes(toLowerCase(task.description), searchTerm)

\* The filter callback of TaskManager.searchTasks.
matchesSearch(task, searchTerm) ==
    \/ includes(toLowerCase(task.title), searchTerm)
    \/ includes(toLowerCase(task.description), searchTerm)
    \/ \E k \in 1..Len(task.tags) :
          includes(toLowerCase(task.tags[k]), searchTerm)

\* TaskManager.searchTasks on the collection it read, for a string query.
searchTasks(tasks, query) ==
    LET searchTerm == Trim(toLowerCase(query))
    IN  IF searchTerm = <<>> THEN tasks
        ELSE SelectSeq(tasks, LAMBDA task : matchesSearch(task, searchTerm))

\* tasks.filter(t => t.status === status).length
countStatus(tasks, status) ==
    Len(SelectSeq(tasks, LAMBDA t : t.status = status))

\* tasks.filter(t => t.priority === priority).length
countPriority(tasks, priority) ==
    Len(SelectSeq(tasks, LAMBDA t : t.priority = priority))

\* Mutant of getStats: completed tasks are counted as pending too.
getStatsOpen(tasks) ==
    [total        |-> Len(tasks),
     pending      |-> Len(tasks) - countStatus(tasks, "in-progress"),
     inProgress   |-> countStatus(tasks, "in-progress"),
     completed    |-> countStatus(tasks, "completed"),
     highPriority |-> countPriority(tasks, "high")]

\* TaskManager.getStats on the collection it read.
getStats(tasks) ==
    [total        |-> Len(tasks),
     pending      |-> countStatus(tasks, "pending"),
     inProgress   |-> countStatus(tasks, "in-progress"),
     completed    |-> countStatus(tasks, "completed"),
     highPriority |-> countPriority(tasks, "high")]

\* Commands.filter
FilterTasks(criteria) ==
    /\ result' = IF ~getTasks.ok THEN StorageError("filter", NoId, criteria)
                 ELSE [NoResult EXCEPT
                         !.op = "filter", !.arg = criteria,
                         !.list = filterTasks(getTasks.tasks, criteria),
                         !.before = getTasks.tasks]
    /\ UNCHANGED <<raw, storage, now, retimed>>
    /\ ReminderUnchanged

\* Commands.search / UIController.handleSearch
SearchTasks(query) ==
    /\ result' = IF ~getTasks.ok THEN StorageError("search", NoId, query)
                 ELSE [NoResult EXCEPT
                         !.op = "search", !.arg = query,
                         !.list = searchTasks(getTasks.tasks, query),
                         !.before = getTasks.tasks]
    /\ UNCHANGED <<raw, storage, now, retimed>>
    /\ ReminderUnchanged

\* UIController.updateStats
GetStats ==
    /\ result' = IF ~getTasks.ok THEN StorageError("stats", NoId, Blank)
                 ELSE [NoResult EXCEPT
                         !.op = "stats",
                         !.stats = getStats(getTasks.tasks),
                         !.before = getTasks.tasks]
    /\ UNCHANGED <<raw, storage, now, retimed>>
    /\ ReminderUnchanged

\* addTask arguments for the queries: a high-priority task with a
\* capitalised title and a due date, one with a description and a
\* capitalised tag, and one whose tag contains the search term.
QueryInputs ==
    { Obj({"title", "priority", "dueDate"},
          [Blank EXCEPT !.title = <<"M", "i">>, !.priority = "high",
                        !.dueDate = DateStr(0)]),
      Obj({"title", "description", "status", "tags"},
          [Blank EXCEPT !.title = <<"a">>, !.description = <<"m", "I">>,
                        !.status = "in-progress",
                        !.tags = << <<"T">> >>]),
      Obj({"title", "tags"},
          [Blank EXCEPT !.title = <<"a">>,
                        !.tags = << <<"x", "m", "i">>, <<"t">> >>]) }

\* updateTask arguments for the queries
QueryUpdates ==
    { Obj({"status"}, [Blank EXCEPT !.status = "completed"]),
      Obj({"status"}, [Blank EXCEPT !.status = ""]) }

\* filterTasks arguments
Criteria ==
    { NoCriteria,
      Obj({"status"}, [NoCriteria EXCEPT !.status = "pending"]),
      Obj({"status"}, [NoCriteria EXCEPT !.status = ""]),
      Obj({"priority"}, [NoCriteria EXCEPT !.priority = "high"]),
      Obj({"status", "priority"},
          [NoCriteria EXCEPT !.status = "completed", !.priority = "high"]),
      Obj({"tag"}, [NoCriteria EXCEPT !.tag = <<"t">>]),
      Obj({"dueDate"}, [NoCriteria EXCEPT !.dueDate = DateStr(Step)]),
      Obj({"dueDate"}, [NoCriteria EXCEPT !.dueDate = DateStr(DayMs)]) }

\* searchTasks arguments
Queries ==
    { <<>>, <<" ">>, <<" ", "M", "I">>, <<"z">> }

NextQuery ==
    \/ \E taskData \in QueryInputs : AddTask(taskData) /\ Uncounted
    \/ \E id \in Ids(storage) : \E updates \in QueryUpdates :
          UpdateTask(id, updates) /\ Uncounted
    \/ \E id \in Ids(storage) : DeleteTask(id) /\ Uncounted
    \/ \E criteria \in Criteria : FilterTasks(criteria) /\ Uncounted
    \/ \E query \in Queries : SearchTasks(query) /\ Uncounted
    \/ GetStats /\ Uncounted

SpecQuery == Init /\ [][NextQuery]_vars

\* Commands.list: TaskManager.listTasks, which is Storage.getTasks with its
\* rejection passed on.
ListTasks ==
    /\ result' = IF ~getTasks.ok THEN StorageError("list", NoId, Blank)
                 ELSE [NoResult EXCEPT !.op = "list",
                                       !.list = getTasks.tasks,
                                       !.before = getTasks.tasks]
    /\ UNCHANGED <<raw, storage, now, retimed>>
    /\ ReminderUnchanged

\* TaskManager.getTask is called.
GetTask(id) ==
    /\ result' = IF ~getTasks.ok THEN StorageError("get", id, Blank)
                 ELSE [NoResult EXCEPT !.op = "get", !.id = id,
                                       !.ret = getTask(getTasks.tasks, id),
                                       !.before = getTasks.tasks]
    /\ UNCHANGED <<raw, storage, now, retimed>>
    /\ ReminderUnchanged

\* Storage.clearTasks is called.
ClearTasks ==
    /\ clearTasks
    /\ result' = NoResult
    /\ UNCHANGED <<now, retimed>>
    /\ ReminderUnchanged

\* What the page may find under the storage key when it loads: nothing, a
\* collection an earlier visit saved, or text that is not JSON (the key is
\* shared with every script of the origin and editable by the user).
StoredCollections ==
    {<<>>} \cup { addTask(<<>>, d, 0, 1).tasks : d \in TaskInputs }

InitStorage ==
    /\ raw \in {"null", "json", "garbage"}
    /\ storage \in (IF raw = "json" THEN StoredCollections ELSE {<<>>})
    /\ now = Step
    /\ result = NoResult
    /\ scan = NoScan
    /\ checkInterval = NullHandle
    /\ notificationPermission = "default"
    /\ timers = <<>>
    /\ notifications = {}
    /\ calls = 0
    /\ retimed = {}
    /\ scanErrors = {}
    /\ page = Loaded
    /\ NoServer

NextStorage ==
    \/ ListTasks /\ Uncounted
    \/ \E id \in CallIds : GetTask(id) /\ Uncounted
    \/ \E taskData \in TaskInputs : AddTask(taskData) /\ Uncounted
    \/ \E id \in CallIds : \E updates \in TaskUpdates :
          UpdateTask(id, updates) /\ Uncounted
    \/ \E id \in CallIds : DeleteTask(id) /\ Uncounted
    \/ ClearTasks /\ Uncounted

SpecStorage == InitStorage /\ [][NextStorage]_vars

\* ------------------------------------------------- the timer on schedule
\* Time passes while no live timer is overdue: every setInterval callback
\* runs at its time, 60 s after the one before.
TickOnTime ==
    /\ \A h \in 1..Len(timers) : timers[h] = Cleared \/ now < timers[h]
    /\ Tick(MaxTime + Step)

NextTicking ==
    \/ \E id \in Ids(storage) : \E updates \in ReminderUpdates :
          Counted(UpdateTask(id, updates))
    \/ \E id \in Ids(storage) : Counted(DeleteTask(id))
    \/ \E permission \in {"granted", "denied"} :
          ReminderInit(permission) /\ UNCHANGED page /\ Uncounted
    \/ StopChecking /\ Uncounted
    \/ \E h \in 1..Len(timers) : TimerFire(h) /\ Uncounted
    \/ ScanRun /\ Uncounted
    \/ MarkWrite /\ Uncounted
    \/ ScanReturn /\ Uncounted
    \/ TickOnTime /\ Uncounted

\* The event loop runs every due timer callback and every pending
\* continuation of checkReminders, and the clock goes on.
FairTicking ==
    /\ WF_vars(\E h \in 1..Len(timers) : TimerFire(h) /\ Uncounted)
    /\ WF_vars(ScanRun /\ Uncounted)
    /\ WF_vars(MarkWrite /\ Uncounted)
    /\ WF_vars(ScanReturn /\ Uncounted)
    /\ WF_vars(TickOnTime /\ Uncounted)

SpecTicking == InitReminder /\ [][NextTicking]_vars /\ FairTicking

\* ------------------------------------------------------------ page load
\* AuthController.isAuthenticated: SessionManager.getSessionToken() is not
\* null, that is, local storage holds a value under the session key.
isAuthenticated == page.token

\* The DOMContentLoaded handler of the task page.  When the auth script is
\* loaded and requireAuth() finds no session, requireAuth sends the
\* document to login.html and the handler returns.  Otherwise it goes on:
\* updateUserHeader and UIController.init read and draw, and
\* ReminderService.init takes the permission and calls startChecking.
PageLoad(permission) ==
    /\ page.at = "loading"
    /\ IF page.auth /\ ~isAuthenticated
       THEN /\ page' = [page EXCEPT !.at = "login"]
            /\ result' = NoResult
            /\ UNCHANGED <<raw, storage, now, scan, checkInterval,
                           notificationPermission, timers, notifications,
                           retimed, scanErrors>>
       ELSE /\ page' = [page EXCEPT !.at = "index"]
            /\ ReminderInit(permission)

\* Two addTask calls in one millisecond that drew the same random part
\* leave two tasks with one id.
DuplicateIdCollections ==
    { addTask(addTask(<<>>, d, 0, 1).tasks, d, 0, 1).tasks :
        d \in ReminderInputs }

\* The document before DOMContentLoaded: the auth script loaded or not, a
\* session token stored or not, and under the tasks key a collection
\* earlier visits saved or text that is not JSON.
InitLoad ==
    /\ raw \in {"json", "garbage"}
    /\ storage \in (IF raw = "json"
                    THEN InitialCollections \cup DuplicateIdCollections
                    ELSE {<<>>})
    /\ now = 0
    /\ result = NoResult
    /\ scan = NoScan
    /\ checkInterval = NullHandle
    /\ notificationPermission = "default"
    /\ timers = <<>>
    /\ notifications = {}
    /\ calls = 0
    /\ retimed = {}
    /\ scanErrors = {}
    /\ page \in [auth : BOOLEAN, token : BOOLEAN, at : {"loading"}]
    /\ NoServer

\* The page loads; its timer and scans run; once the page is drawn the
\* user submits the task form, and the stored value is removed.
NextLoad ==
    \/ \E permission \in {"granted", "denied"} :
          PageLoad(permission) /\ Uncounted
    \/ \E h \in 1..Len(timers) : TimerFire(h) /\ Uncounted
    \/ ScanRun /\ Uncounted
    \/ MarkWrite /\ Uncounted
    \/ ScanReturn /\ Uncounted
    \/ Tick(MaxTime) /\ Uncounted
    \/ /\ page.at = "index"
       /\ \E taskData \in ReminderInputs : Counted(AddTask(taskData))
    \/ page.at = "index" /\ raw # "null" /\ ClearTasks /\ Uncounted

SpecLoad == InitLoad /\ [][NextLoad]_vars

\* ------------------------------------------------------------ auth server
SessionMs == 604800000          \* 7 * 24 * 60 * 60 * 1000: seven days

MaxRequests    == 3             \* requests the server takes
MaxFlight      == 2             \* handlers awaiting at one time
MaxServerTicks == 3             \* clock steps of half a session's life

HalfSession == SessionMs \div 2

Emails    == {"a@x", "b@x"}
Passwords == {"p", "q"}

BogusToken == 0 - 1             \* a token the server never issued

NoClient  == [id |-> 0, email |-> "", password |-> <<>>, isActive |-> FALSE]
NoSession == [clientId |-> 0, sessionToken |-> NoToken, expiresAt |-> 0]

\* crypto.createHash('sha256').update(password).digest('hex'): the digest
\* of a password, a value of another kind than the password, one for each.
hashPassword(password) == <<"sha256", password>>

\* An integer column with mode 'timestamp' keeps whole seconds.
toTimestamp(ms) == (ms \div 1000) * 1000

BrowserUnchanged ==
    UNCHANGED <<raw, storage, result, scan, checkInterval,
                notificationPermission, timers, notifications, calls,
                retimed, scanErrors, page>>

getClientByEmail(email) ==
    IF \E c \in db.clients : c.email = email
    THEN CHOOSE c \in db.clients : c.email = email
    ELSE NoClient

getClientById(id) ==
    IF \E c \in db.clients : c.id = id
    THEN CHOOSE c \in db.clients : c.id = id
    ELSE NoClient

\* db.select().from(sessions).where(eq(sessions.sessionToken, ...))[0]
selectSession(sessionToken) ==
    IF \E x \in db.sessions : x.sessionToken = sessionToken
    THEN CHOOSE x \in db.sessions : x.sessionToken = sessionToken
    ELSE NoSession

\* createClient: the database after the insert.  (The caller has seen that
\* the UNIQUE constraint on email lets the row in.)
createClient(email, password) ==
    [db EXCEPT !.clients = @ \cup {[id |-> db.nextClientId,
                                    email |-> email,
                                    password |-> hashPassword(password),
                                    isActive |-> TRUE]},
               !.nextClientId = @ + 1]

\* createSession with the default expiry: the database after the insert.
\* The token is 32 random bytes, here one that was never drawn before.
createSession(clientId) ==
    [db EXCEPT !.sessions = @ \cup {[clientId |-> clientId,
                                     sessionToken |-> db.nextToken,
                                     expiresAt |->
                                        toTimestamp(now + SessionMs)]},
               !.nextToken = @ + 1]

deleteSession(sessionToken) ==
    [db EXCEPT !.sessions = {x \in @ : x.sessionToken # sessionToken}]

deleteAllClientSessions(clientId) ==
    [db EXCEPT !.sessions = {x \in @ : x.clientId # clientId}]

\* deleteClient; sessions.client_id is declared ON DELETE CASCADE.
deleteClient(id) ==
    [db EXCEPT !.clients = {c \in @ : c.id # id},
               !.sessions = {x \in @ : x.clientId # id}]

deactivateClient(id) ==
    [db EXCEPT !.clients = {IF c.id = id THEN [c EXCEPT !.isActive = FALSE]
                            ELSE c : c \in @}]

activateClient(id) ==
    [db EXCEPT !.clients = {IF c.id = id THEN [c EXCEPT !.isActive = TRUE]
                            ELSE c : c \in @}]

\* updateClient with the updates of the profile route: a password when one
\* was sent (names are not modelled).
updateClient(id, password) ==
    IF password = "" THEN db
    ELSE [db EXCEPT !.clients =
             {IF c.id = id
              THEN [c EXCEPT !.password = hashPassword(password)]
              ELSE c : c \in @}]

\* Mutant of getSession: the expiry is not looked at.
getSessionNoExpiry(sessionToken) ==
    [session |-> selectSession(sessionToken), db |-> db]

\* getSession: the row it returns (none for an unknown or expired token)
\* and the database it leaves, without the row when it had expired.
getSession(sessionToken) ==
    LET session == selectSession(sessionToken)
    IN  IF session = NoSession THEN [session |-> NoSession, db |-> db]
        ELSE IF now > session.expiresAt
             THEN [session |-> NoSession, db |-> deleteSession(sessionToken)]
             ELSE [session |-> session, db |-> db]

\* Mutant of verifyClient: a deactivated account passes.
verifyClientAnyState(email, password) ==
    LET client == getClientByEmail(email)
    IN  IF client = NoClient
        THEN [success |-> FALSE, message |-> "Client not found",
              client |-> NoClient]
        ELSE IF client.password # hashPassword(password)
        THEN [success |-> FALSE, message |-> "Invalid password",
              client |-> NoClient]
        ELSE [success |-> TRUE, message |-> "", client |-> client]

\* verifyClient
verifyClient(email, password) ==
    LET client == getClientByEmail(email)
    IN  IF client = NoClient
        THEN [success |-> FALSE, message |-> "Client not found",
              client |-> NoClient]
        ELSE IF ~client.isActive
        THEN [success |-> FALSE, message |-> "Account is deactivated",
              client |-> NoClient]
        ELSE IF client.password # hashPassword(password)
        THEN [success |-> FALSE, message |-> "Invalid password",
              client |-> NoClient]
        ELSE [success |-> TRUE, message |-> "", client |-> client]

\* res.status(status).json(...)
Reply(kind, status, email, token, clientId) ==
    [kind |-> kind, status |-> status, email |-> email, token |-> token,
     clientId |-> clientId]

\* A route handler that has reached an await it has to resume from.
Awaiting(kind, pc, email, password, token, clientId) ==
    [rid |-> served + 1, kind |-> kind, pc |-> pc, email |-> email,
     password |-> password, token |-> token, clientId |-> clientId]

\* The rows a step removes, recorded with the route that removed them.
Ended(by, newdb) ==
    ended
    \cup {[by |-> by, token |-> x.sessionToken, clientId |-> x.clientId,
           email |-> ""] : x \in db.sessions \ newdb.sessions}
    \cup {[by |-> by, token |-> NoToken, clientId |-> c.id,
           email |-> c.email] :
            c \in {c \in db.clients :
                     \A k \in newdb.clients : k.id # c.id}}

\* One step of the server: the database, the handlers and the response it
\* leaves.
Serve(by, newdb, newhandlers, reply) ==
    /\ db' = newdb
    /\ handlers' = newhandlers
    /\ response' = reply
    /\ ended' = Ended(by, newdb)
    /\ UNCHANGED now
    /\ BrowserUnchanged

\* A request arrives.
Arrives ==
    /\ served < MaxRequests
    /\ Cardinality(handlers) < MaxFlight
    /\ served' = served + 1

\* POST /api/auth/register up to createClient
Register(email, password) ==
    /\ Arrives
    /\ IF getClientByEmail(email) # NoClient
       THEN Serve("register", db, handlers,
                  Reply("register", 400, email, NoToken, 0))
       ELSE Serve("register", db,
                  handlers \cup {Awaiting("register", "insert", email,
                                          password, NoToken, 0)},
                  NoResponse)

\* Mutant of RegisterInsert: the email column has no UNIQUE constraint.
RegisterInsertNoUnique(h) ==
    /\ h \in handlers
    /\ h.kind = "register" /\ h.pc = "insert"
    /\ UNCHANGED served
    /\ Serve("register", createClient(h.email, h.password),
             (handlers \ {h})
                \cup {[h EXCEPT !.pc = "session",
                                !.clientId = db.nextClientId]},
             NoResponse)

\* createClient runs: the insert fails on the UNIQUE constraint of email,
\* which the catch block answers with 500, or puts the row in.
RegisterInsert(h) ==
    /\ h \in handlers
    /\ h.kind = "register" /\ h.pc = "insert"
    /\ UNCHANGED served
    /\ IF getClientByEmail(h.email) # NoClient
       THEN Serve("register", db, handlers \ {h},
                  Reply("register", 500, h.email, NoToken, 0))
       ELSE Serve("register", createClient(h.email, h.password),
                  (handlers \ {h})
                     \cup {[h EXCEPT !.pc = "session",
                                     !.clientId = db.nextClientId]},
                  NoResponse)

\* POST /api/auth/login up to createSession
Login(email, password) ==
    /\ Arrives
    /\ LET checked == verifyClient(email, password)
       IN  IF ~checked.success
           THEN Serve("login", db, handlers,
                      Reply("login", 401, email, NoToken, 0))
           ELSE Serve("login", db,
                      handlers \cup {Awaiting("login", "session", email,
                                              password, NoToken,
                                              checked.client.id)},
                      NoResponse)

\* createSession runs in the register or the login route: the insert fails
\* on the foreign key when the client row is gone (500), or the session is
\* stored and its token sent.
IssueSession(h) ==
    /\ h \in handlers
    /\ h.pc = "session"
    /\ UNCHANGED served
    /\ IF getClientById(h.clientId) = NoClient
       THEN Serve(h.kind, db, handlers \ {h},
                  Reply(h.kind, 500, h.email, NoToken, h.clientId))
       ELSE Serve(h.kind, createSession(h.clientId), handlers \ {h},
                  Reply(h.kind, 200, h.email, db.nextToken, h.clientId))

\* Mutant of Logout: the session row stays.
LogoutKeep(token) ==
    /\ Arrives
    /\ Serve("logout", db, handlers, Reply("logout", 200, "", token, 0))

\* POST /api/auth/logout
Logout(token) ==
    /\ Arrives
    /\ Serve("logout",
             IF token # NoToken THEN deleteSession(token) ELSE db,
             handlers, Reply("logout", 200, "", token, 0))

\* The start of the three authenticated routes: the token of the
\* Authorization header, then getSession.
Authenticated(kind, pc, token, password) ==
    /\ Arrives
    /\ IF token = NoToken
       THEN Serve("expiry", db, handlers, Reply(kind, 401, "", token, 0))
       ELSE LET got == getSession(token)
            IN  IF got.session = NoSession
                THEN Serve("expiry", got.db, handlers,
                           Reply(kind, 401, "", token, 0))
                ELSE Serve("expiry", got.db,
                           handlers \cup {Awaiting(kind, pc, "", password,
                                                   token,
                                                   got.session.clientId)},
                           NoResponse)

\* GET /api/auth/me up to getClientById
Me(token) == Authenticated("me", "client", token, "")

\* getClientById runs in the me route.
MeClient(h) ==
    /\ h \in handlers
    /\ h.kind = "me" /\ h.pc = "client"
    /\ UNCHANGED served
    /\ LET client == getClientById(h.clientId)
       IN  IF client = NoClient
           THEN Serve("me", db, handlers \ {h},
                      Reply("me", 401, "", h.token, h.clientId))
           ELSE Serve("me", db, handlers \ {h},
                      Reply("me", 200, client.email, h.token, client.id))

\* PUT /api/auth/profile up to updateClient
Profile(token, password) ==
    Authenticated("profile", "update", token, password)

\* updateClient runs in the profile route; with the client row gone it
\* returns undefined, reading its id throws, and the answer is 500.
ProfileUpdate(h) ==
    /\ h \in handlers
    /\ h.kind = "profile" /\ h.pc = "update"
    /\ UNCHANGED served
    /\ LET client == getClientById(h.clientId)
       IN  IF client = NoClient
           THEN Serve("profile", db, handlers \ {h},
                      Reply("profile", 500, "", h.token, h.clientId))
           ELSE Serve("profile", updateClient(h.clientId, h.password),
                      handlers \ {h},
                      Reply("profile", 200, client.email, h.token,
                            client.id))

\* DELETE /api/auth/account up to deleteAllClientSessions
DeleteAccount(token) == Authenticated("account", "sessions", token, "")

\* deleteAllClientSessions runs in the account route.
DeleteAccountSessions(h) ==
    /\ h \in handlers
    /\ h.kind = "account" /\ h.pc = "sessions"
    /\ UNCHANGED served
    /\ Serve("account", deleteAllClientSessions(h.clientId),
             (handlers \ {h}) \cup {[h EXCEPT !.pc = "client"]},
             NoResponse)

\* Mutant of DeleteAccountClient: the client row stays.
DeleteAccountKeepClient(h) ==
    /\ h \in handlers
    /\ h.kind = "account" /\ h.pc = "client"
    /\ UNCHANGED served
    /\ Serve("account", db, handlers \ {h},
             Reply("account", 200, "", h.token, h.clientId))

\* deleteClient runs in the account route, and the route answers.
DeleteAccountClient(h) ==
    /\ h \in handlers
    /\ h.kind = "account" /\ h.pc = "client"
    /\ UNCHANGED served
    /\ Serve("account", deleteClient(h.clientId), handlers \ {h},
             Reply("account", 200, "", h.token, h.clientId))

\* deactivateClient is called (by a script on the repository; no route
\* calls it).
Deactivate(id) ==
    /\ served < MaxRequests
    /\ served' = served + 1
    /\ getClientById(id) # NoClient
    /\ Serve("deactivate", deactivateClient(id), handlers,
             Reply("deactivate", 0, "", NoToken, id))

\* activateClient is called.
Activate(id) ==
    /\ served < MaxRequests
    /\ served' = served + 1
    /\ getClientById(id) # NoClient
    /\ Serve("activate", activateClient(id), handlers,
             Reply("activate", 0, "", NoToken, id))

\* The server's clock goes on by half the life of a session.
ServerTick ==
    /\ now < MaxServerTicks * HalfSession
    /\ now' = now + HalfSession
    /\ response' = NoResponse
    /\ UNCHANGED <<db, handlers, ended, served>>
    /\ BrowserUnchanged

\* The database a registration of a@x at time 0 has left.
RegisteredDb ==
    [clients |-> {[id |-> 1, email |-> "a@x",
                   password |-> hashPassword("p"), isActive |-> TRUE]},
     sessions |-> {[clientId |-> 1, sessionToken |-> 1,
                    expiresAt |-> toTimestamp(SessionMs)]},
     nextClientId |-> 2, nextToken |-> 2]

InitServer ==
    /\ raw = "null"
    /\ storage = <<>>
    /\ now = 0
    /\ result = NoResult
    /\ scan = NoScan
    /\ checkInterval = NullHandle
    /\ notificationPermission = "default"
    /\ timers = <<>>
    /\ notifications = {}
    /\ calls = 0
    /\ retimed = {}
    /\ scanErrors = {}
    /\ page = Loaded
    /\ db \in {EmptyDb, RegisteredDb}
    /\ handlers = {}
    /\ response = NoResponse
    /\ ended = {}
    /\ served = 0

\* The tokens a request may present: the issued ones and one that never was.
Tokens == (1..(db.nextToken - 1)) \cup {BogusToken}

NextServer ==
    \/ \E email \in Emails : \E password \in Passwords :
          Register(email, password)
    \/ \E h \in handlers : RegisterInsert(h)
    \/ \E email \in Emails : \E password \in Passwords :
          Login(email, password)
    \/ \E h \in handlers : IssueSession(h)
    \/ \E token \in Tokens \cup {NoToken} : Logout(token)
    \/ \E token \in Tokens \cup {NoToken} : Me(token)
    \/ \E h \in handlers : MeClient(h)
    \/ \E token \in Tokens : \E password \in {"", "q"} :
          Profile(token, password)
    \/ \E h \in handlers : ProfileUpdate(h)
    \/ \E token \in Tokens : DeleteAccount(token)
    \/ \E h \in handlers : DeleteAccountSessions(h)
    \/ \E h \in handlers : DeleteAccountClient(h)
    \/ \E c \in db.clients : Deactivate(c.id)
    \/ \E c \in db.clients : Activate(c.id)
    \/ ServerTick

SpecServer == InitServer /\ [][NextServer]_vars

\* ================================================================ claims
\* The task a TaskManager call addressed, as stored before the call.
Old == getTask(result.before, result.id)

Succeeded(op) == result.op = op /\ result.status = "ok"

\* C1 (as amended): when addTask succeeds, the returned record has the
\* input's title, description and tags trimmed (empty tags dropped), the
\* input's status and priority or the defaults pending and medium, and
\* reminderNotified false; it is appended to the stored collection; and
\* getTask(returned id) returns it unless a task stored before carries the
\* same id, in which case getTask returns that earlier task.
C1_AddThenGetNormalised ==
    Succeeded("add") =>
        LET d   == result.arg
            ret == result.ret
            got == getTask(storage, ret.id)
        IN  /\ ret.title = Trim(d.title)
            /\ ret.description =
                 (IF Has(d, "description") THEN Trim(d.description) ELSE <<>>)
            /\ ret.status =
                 (IF Has(d, "status") /\ d.status # "" THEN d.status
                  ELSE "pending")
            /\ ret.priority =
                 (IF Has(d, "priority") /\ d.priority # "" THEN d.priority
                  ELSE "medium")
            /\ ret.tags = (IF Has(d, "tags") THEN TrimTags(d.tags) ELSE <<>>)
            /\ \A i \in 1..Len(ret.tags) :
                  ret.tags[i] # <<>> /\ ret.tags[i] = Trim(ret.tags[i])
            /\ ~ret.reminderNotified
            /\ storage = Append(result.before, ret)
            /\ got = (IF ret.id \in Ids(result.before)
                      THEN getTask(result.before, ret.id) ELSE ret)

\* C1 as stated: after a successful addTask, getTask(returned id) has the
\* title, description, status, priority and tags of the input (for the keys
\* the input carries) and reminderNotified false.
C1_AddThenGetSame ==
    Succeeded("add") =>
        LET d   == result.arg
            got == getTask(storage, result.ret.id)
        IN  /\ got.title = d.title
            /\ Has(d, "description") => got.description = d.description
            /\ Has(d, "status") => got.status = d.status
            /\ Has(d, "priority") => got.priority = d.priority
            /\ Has(d, "tags") => got.tags = d.tags
            /\ ~got.reminderNotified

\* An input with padded strings and an empty tag was added and read back.
C1_Witness ==
    /\ Succeeded("add")
    /\ result.arg.title # Trim(result.arg.title)
    /\ Len(result.arg.tags) > Len(result.ret.tags)
    /\ getTask(storage, result.ret.id) = result.ret

\* C2: a successful updateTask leaves the id and the createdAt of the
\* stored task as they were, whatever keys updates carries.
C2_UpdateKeepsIdCreatedAt ==
    Succeeded("update") =>
        LET index == findIndex(result.before, result.id)
        IN  /\ Len(storage) = Len(result.before)
            /\ storage[index].id = result.before[index].id
            /\ storage[index].createdAt = result.before[index].createdAt
            /\ result.ret.id = result.id
            /\ result.ret.createdAt = Old.createdAt

\* An update that itself carried other id and createdAt values succeeded.
C2_Witness ==
    /\ Succeeded("update")
    /\ Has(result.arg, "id") /\ result.arg.id # result.id
    /\ Has(result.arg, "createdAt") /\ result.arg.createdAt # Old.createdAt
    /\ result.ret.title = result.arg.title

\* C3: when the merge of updates onto the stored task fails validation,
\* updateTask fails and the stored collection is what it was.
C3_InvalidMergeRejected ==
    ( /\ result.op = "update"
      /\ result.id \in Ids(result.before)
      /\ ~validateTask(mergeTask(Old, result.arg, now)).isValid )
    => /\ result.status = "error"
       /\ storage = result.before

\* An update of a stored task was rejected by validation.
C3_Witness ==
    /\ result.op = "update"
    /\ result.err = "validation"
    /\ result.id \in Ids(result.before)
    /\ validateTask(Old).isValid

\* C4: updateTask and deleteTask with an id no stored task has fail with
\* "Task not found" and leave the stored collection unchanged.
C4_AbsentIdNotFound ==
    ( /\ result.op \in {"update", "delete"}
      /\ result.id \notin Ids(result.before) )
    => /\ result.status = "error"
       /\ result.err = "Task not found"
       /\ storage = result.before

\* deleteTask was called with an absent id on a collection that holds tasks.
C4_Witness ==
    /\ result.op = "delete"
    /\ result.err = "Task not found"
    /\ result.before # <<>>

\* C5 as stated: after a successful deleteTask(id), getTask(id) is null and
\* the other tasks are all still stored, unchanged and in the same order.
C5_DeleteThenGetNull ==
    Succeeded("delete") =>
        /\ getTask(storage, result.id) = NoTask
        /\ \E k \in 1..Len(result.before) :
              /\ result.before[k].id = result.id
              /\ storage = splice(result.before, k)

\* C6 as stated: no two stored tasks have the same id.
C6_UniqueIds ==
    \A i, j \in 1..Len(storage) : i # j => storage[i].id # storage[j].id

\* C7 as stated: a successful updateTask of a task with reminderNotified
\* true that leaves it with another reminderTime (none included) leaves it
\* with reminderNotified false.
C7_ResetOnAnyChange ==
    ( /\ Succeeded("update")
      /\ Old.reminderNotified
      /\ result.ret.reminderTime # Old.reminderTime )
    => ~result.ret.reminderNotified

\* C8 (as amended): updateTask turns reminderNotified from true to false
\* only when the update changes reminderTime or updates itself carries
\* reminderNotified = false; an update that neither changes reminderTime
\* nor carries a reminderNotified key leaves reminderNotified as it was.
C8_ResetOnlyOnChangeOrKey ==
    Succeeded("update") =>
        /\ (Old.reminderNotified /\ ~result.ret.reminderNotified)
              => \/ result.ret.reminderTime # Old.reminderTime
                 \/ /\ Has(result.arg, "reminderNotified")
                    /\ ~result.arg.reminderNotified
        /\ ( /\ result.ret.reminderTime = Old.reminderTime
             /\ ~Has(result.arg, "reminderNotified") )
              => result.ret.reminderNotified = Old.reminderNotified

\* C8 as stated: updateTask turns reminderNotified from true to false only
\* when the update changes reminderTime; otherwise the flag stays.
C8_ResetOnlyOnChange ==
    Succeeded("update") =>
        /\ (Old.reminderNotified /\ ~result.ret.reminderNotified)
              => result.ret.reminderTime # Old.reminderTime
        /\ result.ret.reminderTime = Old.reminderTime
              => result.ret.reminderNotified = Old.reminderNotified

\* A status-only update of a notified task left the flag set.
C8_Witness ==
    /\ Succeeded("update")
    /\ result.arg.keys = {"status"}
    /\ Old.reminderNotified
    /\ result.ret.reminderNotified
    /\ getTask(storage, result.id).reminderNotified

\* The condition of C9 on a task as the scan read it, at the scan's now.
DueByClaim(task, at) ==
    /\ task.reminderEnabled
    /\ task.reminderTime.tag = "date"
    /\ ~task.reminderNotified
    /\ task.status # "completed"
    /\ 0 - CheckIntervalMs < task.reminderTime.ms - at
    /\ task.reminderTime.ms - at <= CheckIntervalMs

\* The indices of the snapshot the running scan has decided on.
Examined ==
    CASE scan.pc = "run"  -> 1..(scan.i - 1)
      [] scan.pc = "mark" -> 1..scan.i
      [] scan.pc = "done" -> 1..Len(scan.snap)
      [] OTHER            -> {}

\* C9: a scan at time now dispatches a notification for a task exactly
\* when the task, as the scan read it, has reminderEnabled, a reminderTime,
\* reminderNotified false, a status other than completed and
\* -60s < reminderTime - now <= 60s; so 30 s late is due, 90 s late is not.
C9_DispatchIffDue ==
    \A k \in Examined :
        LET task == scan.snap[k]
        IN  /\ (k \in scan.sent) <=> DueByClaim(task, scan.at)
            /\ k \in scan.sent =>
                  \E n \in notifications :
                     /\ n.tag = task.id /\ n.at = scan.at
                     /\ n.reminderTime = task.reminderTime
            /\ ( /\ task.reminderEnabled /\ ~task.reminderNotified
                 /\ task.status # "completed"
                 /\ task.reminderTime = DateStr(scan.at - Step) )
               => k \in scan.sent
            /\ task.reminderTime = DateStr(scan.at - 3 * Step)
               => k \notin scan.sent

\* A task was notified 30 s late, and a finished scan passed over an armed
\* task that was 90 s late.
C9_Witness ==
    /\ \E n \in notifications : n.reminderTime.ms - n.at = 0 - Step
    /\ scan.pc = "done"
    /\ \E k \in 1..Len(scan.snap) :
          /\ k \notin scan.sent
          /\ scan.snap[k].reminderEnabled
          /\ ~scan.snap[k].reminderNotified
          /\ scan.snap[k].status # "completed"
          /\ scan.snap[k].reminderTime = DateStr(scan.at - 3 * Step)

\* C10: a task is never notified by a scan that sees it 60 s or more late:
\* every notification was dispatched by a scan that read the task less
\* than 60 s after the reminderTime it read, and a stored task has
\* reminderNotified set only if a notification was dispatched for it.
C10_NeverRetroactive ==
    /\ \A n \in notifications :
          n.reminderTime.ms - n.at > 0 - CheckIntervalMs
    /\ \A i \in 1..Len(storage) :
          storage[i].reminderNotified
             => \E n \in notifications : n.tag = storage[i].id

\* A finished scan read an armed task 60 s or more late; the task is still
\* stored, not notified and without any notification.
C10_Witness ==
    /\ scan.pc = "done"
    /\ \E k \in 1..Len(scan.snap) :
          LET task == scan.snap[k]
          IN  /\ task.reminderEnabled
              /\ ~task.reminderNotified
              /\ task.status # "completed"
              /\ task.reminderTime.tag = "date"
              /\ task.reminderTime.ms - scan.at <= 0 - CheckIntervalMs
              /\ getTask(storage, task.id) = task
              /\ \A n \in notifications : n.tag # task.id

\* C11 as stated, for the tasks whose reminderTime no update has changed
\* (their whole life is one armed cycle): all the notifications dispatched
\* for such a task come from one scan.
C11_AtMostOncePerCycle ==
    \A n1, n2 \in notifications :
        (n1.tag = n2.tag /\ n1.tag \notin retimed) => n1.at = n2.at

\* C12 as stated: in the step that dispatches a notification for a task,
\* the task as stored at that moment has reminderEnabled true.
C12_NoDispatchWhenDisabled ==
    [][ \A n \in notifications' \ notifications :
           n.tag \in Ids(getTasks.tasks)
              => getTask(getTasks.tasks, n.tag).reminderEnabled ]_vars

\* C13 as stated: in the step that dispatches a notification for a task,
\* the task as stored at that moment does not have the status completed.
C13_NoDispatchWhenCompleted ==
    [][ \A n \in notifications' \ notifications :
           n.tag \in Ids(getTasks.tasks)
              => getTask(getTasks.tasks, n.tag).status # "completed" ]_vars

\* C14 as stated: while checkInterval is null (stopChecking has returned
\* and startChecking has not been called since) no scan starts, and
\* stopChecking called when checkInterval is null changes nothing.
C14_NoScanAfterStop ==
    [][ /\ (checkInterval = NullHandle /\ checkInterval' = NullHandle)
              => ~(scan.pc = "idle" /\ scan'.pc = "run")
        /\ (StopChecking /\ checkInterval = NullHandle)
              => UNCHANGED <<raw, storage, scan, checkInterval,
                             notificationPermission, timers,
                             notifications>> ]_vars

\* The condition of C15 on a stored task at time t.
ArmedAhead(task, t) ==
    /\ task.reminderEnabled
    /\ task.reminderTime.tag = "date"
    /\ ~task.reminderNotified
    /\ task.status # "completed"
    /\ task.reminderTime.ms > t

\* C15 as stated: getUpcomingReminders returns exactly the stored tasks
\* that have reminderEnabled, a reminderTime later than now and
\* reminderNotified false and are not completed, in ascending order of
\* reminderTime.
C15_UpcomingExactlyArmed ==
    result.op = "upcoming" =>
        LET list  == result.list
            tasks == result.before
        IN  /\ \A i \in 1..Len(list) :
                  \E j \in 1..Len(tasks) :
                     tasks[j] = list[i] /\ ArmedAhead(tasks[j], now)
            /\ Len(list) =
                  Cardinality({j \in 1..Len(tasks) : ArmedAhead(tasks[j], now)})
            /\ \A i, k \in 1..Len(list) :
                  i < k => list[i].reminderTime.ms <= list[k].reminderTime.ms

\* C16 as stated: a read of the collection when there is no value under
\* the storage key, or a value that cannot be parsed, succeeds and yields
\* the empty sequence.
C16_AbsentOrMalformedReadsEmpty ==
    (result.op = "list" /\ raw \in {"null", "garbage"})
       => result.status = "ok" /\ result.list = <<>>

\* C17 as stated: getTask(id) succeeds in every storage state, and returns
\* the stored task with that id, or null when no stored task has it.
C17_GetTaskNeverFails ==
    result.op = "get" =>
        /\ result.status = "ok"
        /\ result.ret =
              (IF raw = "json" /\ result.id \in Ids(storage)
               THEN storage[findIndex(storage, result.id)] ELSE NoTask)

\* C18: every stored task has updatedAt >= createdAt, and a successful
\* updateTask leaves the task with an updatedAt that is not earlier than
\* the one it had.
C18_UpdatedAtOrdered ==
    /\ \A i \in 1..Len(storage) :
          storage[i].updatedAt >= storage[i].createdAt
    /\ Succeeded("update") =>
          LET index == findIndex(result.before, result.id)
          IN  /\ storage[index].updatedAt >= result.before[index].updatedAt
              /\ result.ret.updatedAt >= Old.updatedAt

\* An update made later than the task's creation, and itself carrying an
\* updatedAt earlier than the task's createdAt, has succeeded.
C18_Witness ==
    /\ Succeeded("update")
    /\ Has(result.arg, "updatedAt")
    /\ result.arg.updatedAt < Old.createdAt
    /\ result.ret.updatedAt > Old.updatedAt
    /\ getTask(storage, result.id) = result.ret

\* C19 as stated: a step that changes a stored task record leaves the
\* record with updatedAt equal to the time of the step.
C19_EveryChangeStamped ==
    [][ \A i \in 1..Len(storage') :
           ( /\ i <= Len(storage)
             /\ storage'[i].id = storage[i].id
             /\ storage'[i] # storage[i] )
           => storage'[i].updatedAt = now' ]_vars

\* C20 as stated: every stored task has one of the three statuses and one
\* of the three priorities.
C20_StatusPriorityInRange ==
    \A i \in 1..Len(storage) :
        /\ storage[i].status \in validStatuses
        /\ storage[i].priority \in validPriorities

\* C21 as stated: every stored task has a title and a description
\* without leading or trailing whitespace, and tags that are non-empty and
\* trimmed.
C21_StoredStringsTrimmed ==
    \A i \in 1..Len(storage) :
        /\ storage[i].title = Trim(storage[i].title)
        /\ storage[i].description = Trim(storage[i].description)
        /\ \A k \in 1..Len(storage[i].tags) :
              /\ storage[i].tags[k] # <<>>
              /\ storage[i].tags[k] = Trim(storage[i].tags[k])

\* The criteria of C22 as stated: every key the criteria object carries
\* must match.
MatchesPresent(task, criteria) ==
    /\ Has(criteria, "status") => task.status = criteria.status
    /\ Has(criteria, "priority") => task.priority = criteria.priority
    /\ Has(criteria, "tag")
          => \E k \in 1..Len(task.tags) :
                toLowerCase(task.tags[k]) = toLowerCase(criteria.tag)

\* The criteria of C22 as amended: every key the criteria object carries
\* with a non-empty value must match.
MatchesNonEmpty(task, criteria) ==
    /\ (Has(criteria, "status") /\ criteria.status # "")
          => task.status = criteria.status
    /\ (Has(criteria, "priority") /\ criteria.priority # "")
          => task.priority = criteria.priority
    /\ (Has(criteria, "tag") /\ criteria.tag # <<>>)
          => \E k \in 1..Len(task.tags) :
                toLowerCase(task.tags[k]) = toLowerCase(criteria.tag)

\* list is the subsequence of tasks, in order, of the tasks at the
\* positions in keep.
IsSelection(list, tasks, keep) ==
    \E f \in [1..Len(list) -> 1..Len(tasks)] :
        /\ \A i \in 1..Len(list) : list[i] = tasks[f[i]]
        /\ \A i, k \in 1..Len(list) : i < k => f[i] < f[k]
        /\ {f[i] : i \in 1..Len(list)} = keep

\* C22 (as amended): filterTasks with status, priority and tag criteria
\* returns, in stored order, exactly the stored tasks that match every
\* criterion carried with a non-empty value; a criterion whose value is
\* empty constrains nothing, and criteria without a recognized key return
\* the full collection.
C22_FilterExactNonEmpty ==
    (result.op = "filter" /\ ~Has(result.arg, "dueDate")) =>
        LET tasks == result.before
        IN  /\ IsSelection(result.list, tasks,
                  {j \in 1..Len(tasks) : MatchesNonEmpty(tasks[j], result.arg)})
            /\ result.arg.keys = {} => result.list = tasks
            /\ storage = tasks

\* C22 as stated: filterTasks with status, priority and tag criteria
\* returns, in stored order, exactly the stored tasks that match every
\* criterion the criteria object carries.
C22_FilterExactPresent ==
    (result.op = "filter" /\ ~Has(result.arg, "dueDate")) =>
        LET tasks == result.before
        IN  /\ IsSelection(result.list, tasks,
                  {j \in 1..Len(tasks) : MatchesPresent(tasks[j], result.arg)})
            /\ result.arg.keys = {} => result.list = tasks

\* A filter by tag kept a task whose tag differs in case from the one
\* asked for, and dropped another stored task.
C22_Witness ==
    /\ result.op = "filter"
    /\ result.arg.keys = {"tag"}
    /\ Len(result.list) = 1 /\ Len(result.before) = 2
    /\ \A k \in 1..Len(result.list[1].tags) :
          result.list[1].tags[k] # result.arg.tag

\* The search term of C23: the query trimmed and lower-cased.
TermOf(query) == toLowerCase(Trim(query))

\* C23: searchTasks with an empty or whitespace-only query returns the
\* stored collection as it is; with any other query it returns, in stored
\* order, exactly the stored tasks whose lower-cased title, description or
\* one of whose lower-cased tags contains the trimmed, lower-cased query.
C23_SearchExact ==
    result.op = "search" =>
        LET tasks == result.before
            term  == TermOf(result.arg)
        IN  /\ result.status = "ok"
            /\ storage = tasks
            /\ Trim(result.arg) = <<>> => result.list = tasks
            /\ Trim(result.arg) # <<>> =>
                  IsSelection(result.list, tasks,
                    {j \in 1..Len(tasks) :
                       \/ includes(toLowerCase(tasks[j].title), term)
                       \/ includes(toLowerCase(tasks[j].description), term)
                       \/ \E k \in 1..Len(tasks[j].tags) :
                             includes(toLowerCase(tasks[j].tags[k]), term)})

\* A padded, upper-case query found two stored tasks, one only by a tag
\* that contains the term and one, without tags, by its title or
\* description.
C23_Witness ==
    /\ result.op = "search"
    /\ result.arg = <<" ", "M", "I">>
    /\ Len(result.list) = 2
    /\ \E i \in 1..2 :
          /\ ~includes(toLowerCase(result.list[i].title), <<"m", "i">>)
          /\ ~includes(toLowerCase(result.list[i].description), <<"m", "i">>)
    /\ \E i \in 1..2 : result.list[i].tags = <<>>

\* C24: getStats returns total = the number of stored tasks and pending,
\* inProgress, completed, highPriority = the number of stored tasks with
\* that status or priority; with one stored task of high priority that is
\* pending it returns total 1, pending 1, highPriority 1, and once that
\* task is completed pending 0, completed 1.
C24_StatsCount ==
    result.op = "stats" =>
        LET tasks == result.before
            st    == result.stats
            N(P(_)) == Cardinality({j \in 1..Len(tasks) : P(tasks[j])})
        IN  /\ storage = tasks
            /\ st.total = Len(tasks)
            /\ st.pending = N(LAMBDA t : t.status = "pending")
            /\ st.inProgress = N(LAMBDA t : t.status = "in-progress")
            /\ st.completed = N(LAMBDA t : t.status = "completed")
            /\ st.highPriority = N(LAMBDA t : t.priority = "high")
            /\ ( /\ Len(tasks) = 1 /\ tasks[1].priority = "high"
                 /\ tasks[1].status = "pending" )
               => st.total = 1 /\ st.pending = 1 /\ st.highPriority = 1
            /\ (Len(tasks) = 1 /\ tasks[1].status = "completed")
               => st.pending = 0 /\ st.completed = 1

\* The statistics of a single stored task, of high priority, that was
\* added pending and has been completed by an update.
C24_Witness ==
    /\ result.op = "stats"
    /\ Len(storage) = 1
    /\ storage[1].priority = "high"
    /\ storage[1].status = "completed"
    /\ result.stats.pending = 0 /\ result.stats.completed = 1
    /\ result.stats.total = 1 /\ result.stats.highPriority = 1

C26_InitOnlyWithToken ==
    ( \/ page.at = "index"
      \/ timers # <<>>
      \/ scan.pc # "idle"
      \/ scanErrors # {} )
    => page.token

\* C27: the last writer wins on the whole collection.  After the write of
\* a markAsNotified call that found its task, the stored collection is the
\* collection that call had read with the task's flag set, whatever a
\* TaskManager call saved between that read and the write.
C27_LastWriteWins ==
    (result.op = "mark" /\ findIndex(result.list, result.id) # 0)
    => /\ raw = "json"
       /\ storage = [result.list EXCEPT
                       ![findIndex(result.list, result.id)].reminderNotified
                           = TRUE]

\* A write was lost: between markAsNotified's read and its write an
\* updateTask call stored a task as completed, markAsNotified then saved
\* its own copy, and the stored task is pending again.
C27_Witness ==
    /\ result.op = "mark"
    /\ findIndex(result.list, result.id) # 0
    /\ Len(result.before) = Len(storage)
    /\ \E i \in 1..Len(storage) :
          /\ result.before[i].id = storage[i].id
          /\ result.before[i].status = "completed"
          /\ result.before[i].updatedAt > storage[i].updatedAt
          /\ storage[i].status = "pending"
          /\ result.list[i].status = "pending"

\* C28: a scan whose storage read fails ends there, with the error logged
\* and nothing thrown on: it stores nothing and dispatches nothing, no
\* timer is cancelled and a timer is scheduled one interval ahead; and a
\* scan that starts, after a failure or not, takes the whole stored
\* collection from its first task at the current time.
C28_FailedScanLeavesTimer ==
    [][ /\ scanErrors' # scanErrors
           => /\ scan' = NoScan
              /\ UNCHANGED <<raw, storage, notifications>>
              /\ \A h \in 1..Len(timers) :
                    timers[h] # Cleared => timers'[h] # Cleared
              /\ \E h \in 1..Len(timers') :
                    timers'[h] = now + CheckIntervalMs
        /\ (scan.pc = "idle" /\ scan'.pc = "run")
           => /\ scanErrors' = scanErrors
              /\ scan' = [pc |-> "run", snap |-> storage, i |-> 1,
                          at |-> now, sent |-> {}, marksnap |-> <<>>] ]_vars

\* A scan failed, the timer fired again later, and that scan dispatched a
\* notification for a task stored after the failure.
C28_Witness ==
    /\ scanErrors # {}
    /\ \E n \in notifications :
          /\ \A e \in scanErrors : n.at > e
          /\ n.tag.ms >= 0
          /\ \E i \in 1..Len(storage) : storage[i].id = n.tag

\* C29 as stated: when a scan of a signed-in page that met no storage
\* error has gone through its collection, and no TaskManager call was made
\* meanwhile, every task it found due that is still stored (at the place
\* where the scan read it) has reminderNotified = true in storage.
C29_DueTasksFlagged ==
    (scan.pc = "done" /\ calls = 0 /\ page.auth /\ page.token)
    => \A j \in scan.sent :
          ( /\ j <= Len(getTasks.tasks)
            /\ getTasks.tasks[j].id = scan.snap[j].id )
          => getTasks.tasks[j].reminderNotified

\* C30: a successful updateTask(id, updates) leaves the collection with
\* the same length and order, leaves every task but the (first) one with
\* that id as it was, and changes in that task only keys of updates,
\* updatedAt, and reminderNotified when reminderTime changes.
C30_UpdateFrame ==
    Succeeded("update") =>
        LET index == findIndex(result.before, result.id)
        IN  /\ index # 0
            /\ Len(storage) = Len(result.before)
            /\ \A j \in 1..Len(storage) :
                  j # index => storage[j] = result.before[j]
            /\ storage[index].id = result.id
            /\ \A k \in TaskKeys :
                  storage[index][k] # result.before[index][k]
                  => \/ k \in result.arg.keys
                     \/ k = "updatedAt"
                     \/ /\ k = "reminderNotified"
                        /\ storage[index].reminderTime
                              # result.before[index].reminderTime

\* An update of the reminderTime of the first of two notified tasks: the
\* task's reminderTime, reminderNotified and updatedAt changed, the other
\* task is as it was.
C30_Witness ==
    /\ Succeeded("update")
    /\ result.arg.keys = {"reminderTime"}
    /\ Len(storage) = 2
    /\ storage[1].id = result.id
    /\ result.before[1].reminderNotified
    /\ ~storage[1].reminderNotified
    /\ storage[1].reminderTime # result.before[1].reminderTime
    /\ storage[1].updatedAt # result.before[1].updatedAt
    /\ storage[2] = result.before[2]

\* The rules of the task fields that a candidate violates.
ViolatedRules(task) ==
    {rule \in {"title non-empty", "title length", "description", "status",
               "priority", "due date", "due time", "reminder time",
               "reminder minutes"} :
       \/ rule = "title non-empty" /\ Len(Trim(task.title)) = 0
       \/ rule = "title length" /\ Len(task.title) > MaxTitleLen
       \/ rule = "description" /\ Len(task.description) > MaxDescLen
       \/ rule = "status" /\ task.status \notin validStatuses
       \/ rule = "priority" /\ task.priority \notin validPriorities
       \/ rule = "due date"
             /\ Truthy(task.dueDate) /\ IsNaNDate(task.dueDate)
       \/ rule = "due time"
             /\ task.dueTime # <<>> /\ ~timeRegex(task.dueTime)
       \/ rule = "reminder time"
             /\ Truthy(task.reminderTime) /\ IsNaNDate(task.reminderTime)
       \/ rule = "reminder minutes"
             /\ task.reminderEnabled /\ task.reminderMinutes < 0}

\* C31 as stated: for the merged task that updateTask hands to
\* validateTask, the errors list has one entry for each rule the task
\* violates, and isValid is true exactly when it violates none.
C31_EveryViolationReported ==
    (result.op = "update" /\ findIndex(result.before, result.id) # 0)
    => LET candidate == mergeTask(Old, result.arg, now)
       IN  /\ Len(validateTask(candidate).errors)
                 = Cardinality(ViolatedRules(candidate))
           /\ validateTask(candidate).isValid
                 <=> ViolatedRules(candidate) = {}

\* C32 as stated: a stored task has reminderNotified = true only if a
\* Notification was constructed for it, whatever the permission is.
C32_NotifiedOnlyIfDelivered ==
    \A i \in 1..Len(storage) :
       storage[i].reminderNotified
       => \E n \in notifications : n.tag = storage[i].id /\ n.shown

\* A timer of the reminder service is live.
Ticking == \E h \in 1..Len(timers) : timers[h] # Cleared

\* The stored task id has reminderTime r and is enabled and not completed.
Kept(id, r) ==
    \E i \in 1..Len(storage) :
       /\ storage[i].id = id
       /\ storage[i].reminderEnabled
       /\ storage[i].status # "completed"
       /\ storage[i].reminderTime = DateStr(r)

\* The stored task id is marked, and a scan inside the window of r
\* dispatched its notification.
NotifiedInWindow(id, r) ==
    /\ getTask(storage, id).reminderNotified
    /\ \E n \in notifications :
          /\ n.tag = id
          /\ n.reminderTime = DateStr(r)
          /\ r - n.at <= CheckIntervalMs
          /\ r - n.at > 0 - CheckIntervalMs

AuthKinds == {"me", "profile", "account"}

\* C34: an authenticated route goes past getSession only with a token whose
\* session row exists and has expiresAt not before the current time, and
\* answers 200 only from there; a lookup of a token whose row has expired
\* is answered 401 and leaves no row with that token; and no step brings
\* back a token whose row is gone.
C34_SessionLiveOrRejected ==
    [][ /\ \A h \in handlers' \ handlers :
              (h.kind \in AuthKinds /\ served' # served)
              => /\ selectSession(h.token) # NoSession
                 /\ now <= selectSession(h.token).expiresAt
                 /\ h.clientId = selectSession(h.token).clientId
        /\ (response'.kind \in AuthKinds /\ response'.status = 200)
              => \E h \in handlers \ handlers' :
                    h.kind = response'.kind /\ h.token = response'.token
        /\ ( /\ served' # served
             /\ response'.kind \in AuthKinds
             /\ selectSession(response'.token) # NoSession
             /\ now > selectSession(response'.token).expiresAt )
              => /\ response'.status = 401
                 /\ \A x \in db'.sessions :
                       x.sessionToken # response'.token
        /\ \A x \in db'.sessions :
              x \in db.sessions \/ x.sessionToken = db.nextToken ]_vars

\* The session of the first registration was looked up after its seven
\* days: the request got 401 and the lookup deleted the row.
C34_Witness ==
    /\ response.kind = "me"
    /\ response.status = 401
    /\ response.token = 1
    /\ now > toTimestamp(SessionMs)
    /\ \E e \in ended : e.by = "expiry" /\ e.token = 1
    /\ \A x \in db.sessions : x.sessionToken # 1

\* The tokens whose session row a logout request has deleted.
LoggedOut == {e.token : e \in {e \in ended : e.by = "logout"}}

\* C35: when a logout request carrying a token has been answered, no
\* session row with that token is left; a request that presents a logged
\* out token to an authenticated route is answered 401 at once and goes no
\* further; and no deleted session is ever in the table again.
C35_LoggedOutRejected ==
    [][ /\ (response'.kind = "logout" /\ response'.token # NoToken)
              => /\ response'.status = 200
                 /\ \A x \in db'.sessions :
                       x.sessionToken # response'.token
        /\ ( /\ served' # served
             /\ response'.kind \in AuthKinds
             /\ response'.token \in LoggedOut )
              => response'.status = 401
        /\ \A h \in handlers' \ handlers :
              served' # served => h.token \notin LoggedOut
        /\ \A e \in ended' :
              e.token # NoToken
              => \A x \in db'.sessions : x.sessionToken # e.token ]_vars

\* The session of the first registration was logged out while it had days
\* to live, and a later request for the profile with its token got 401.
C35_Witness ==
    /\ 1 \in LoggedOut
    /\ now <= toTimestamp(SessionMs)
    /\ response.kind = "profile"
    /\ response.status = 401
    /\ response.token = 1
    /\ getClientById(1) # NoClient

\* The client with this email exists, is active and has this password.
GoodCredentials(email, password) ==
    /\ getClientByEmail(email) # NoClient
    /\ getClientByEmail(email).isActive
    /\ getClientByEmail(email).password = hashPassword(password)

\* C36: a login request goes on to createSession only when a client with
\* its email exists, is active and has the hash of its password, and then
\* for that client; a login request that does not go on is answered 401;
\* a rejected login leaves the database as it was; and a session row is
\* only ever added by the createSession call of a login or register
\* handler, for the client that handler has.
C36_LoginChecksCredentials ==
    [][ /\ \A h \in handlers' \ handlers :
              (h.kind = "login" /\ served' # served)
              => /\ GoodCredentials(h.email, h.password)
                 /\ h.clientId = getClientByEmail(h.email).id
                 /\ h.pc = "session"
        /\ (served' # served /\ response'.kind = "login")
              => response'.status = 401
        /\ (response'.kind = "login" /\ response'.status # 200)
              => db' = db
        /\ \A x \in db'.sessions \ db.sessions :
              \E h \in handlers \ handlers' :
                 /\ h.kind \in {"login", "register"}
                 /\ h.pc = "session"
                 /\ h.clientId = x.clientId
                 /\ response'.status = 200
                 /\ response'.token = x.sessionToken ]_vars

\* A login for the deactivated account of a@x was answered 401, and no
\* session has been created since the registration.
C36_Witness ==
    /\ response.kind = "login"
    /\ response.status = 401
    /\ response.email = "a@x"
    /\ getClientByEmail("a@x") # NoClient
    /\ ~getClientByEmail("a@x").isActive
    /\ db.nextToken = 2

\* C37: no two client rows have one email; a register request that finds
\* a client with its email, at its check or at its insert, is answered 400
\* or 500; and a register request that is not answered 200 leaves the
\* database without a new client and without a new session.
C37_OneClientPerEmail ==
    /\ [](\A c1 \in db.clients : \A c2 \in db.clients :
             c1.email = c2.email => c1 = c2)
    /\ [][ /\ ( /\ response'.kind = "register"
                /\ getClientByEmail(response'.email) # NoClient
                /\ \/ served' # served
                   \/ \E h \in handlers \ handlers' : h.pc = "insert" )
                 => /\ response'.status \in {400, 500}
                    /\ db' = db
           /\ (response'.kind = "register" /\ response'.status # 200)
                 => /\ db'.clients = db.clients
                    /\ db'.sessions = db.sessions
           /\ \A h \in handlers \ handlers' :
                 ( /\ h.kind = "register" /\ h.pc = "insert"
                   /\ getClientByEmail(h.email) # NoClient )
                 => response'.kind = "register" ]_vars

\* Two register requests for one email both passed the check; the insert
\* of the first stored the client, the insert of the second failed and was
\* answered 500, and there is one client and no session of the second.
C37_Witness ==
    /\ response.kind = "register"
    /\ response.status = 500
    /\ ended = {}
    /\ getClientByEmail(response.email) # NoClient
    /\ Cardinality(db.clients) = 1
    /\ db.nextClientId = 2
    /\ Cardinality(db.sessions) <= 1

\* The client rows deleted so far, and the tokens of the deleted sessions.
DeletedClients == {e \in ended : e.token = NoToken}
EndedTokens    == {e.token : e \in ended} \ {NoToken}

\* C38 as stated: once an account is deleted no session of that client
\* exists and no login with the client's email is ever answered 200.
C38_DeletedEmailNeverLogsIn ==
    \A e \in DeletedClients :
       /\ \A x \in db.sessions : x.clientId # e.clientId
       /\ (response.kind = "login" /\ response.status = 200)
             => response.email # e.email

\* C38 (as amended): a delete-account request answered 200 leaves no row
\* and no session of its client; a deleted client never has a row or a
\* session again; a request presenting a token of a deleted session to an
\* authenticated route is answered 401; and a login with an email that no
\* client has, as the deleted client's email until it is registered again,
\* is answered 401, no login going on or being answered 200 for a deleted
\* client.
C38_DeletedAccountStaysOut ==
    [][ /\ (response'.kind = "account" /\ response'.status = 200)
              => /\ \A c \in db'.clients : c.id # response'.clientId
                 /\ \A x \in db'.sessions :
                       x.clientId # response'.clientId
                 /\ \E e \in ended' :
                       e.token = NoToken /\ e.clientId = response'.clientId
        /\ \A e \in {e \in ended' : e.token = NoToken} :
              /\ \A c \in db'.clients : c.id # e.clientId
              /\ \A x \in db'.sessions : x.clientId # e.clientId
        /\ ( /\ served' # served
             /\ response'.kind \in AuthKinds
             /\ response'.token \in EndedTokens )
              => response'.status = 401
        /\ \A h \in handlers' \ handlers :
              served' # served
              => /\ h.token \notin EndedTokens
                 /\ \A e \in DeletedClients : h.clientId # e.clientId
        /\ ( /\ served' # served
             /\ response'.kind = "login"
             /\ getClientByEmail(response'.email) = NoClient )
              => response'.status = 401
        /\ (response'.kind = "login" /\ response'.status = 200)
              => \A e \in {e \in ended' : e.token = NoToken} :
                    response'.clientId # e.clientId ]_vars

\* The account of a@x was deleted, its session with it, and a login with
\* a@x, which no client has now, was answered 401.
C38_Witness ==
    /\ \E e \in DeletedClients : e.clientId = 1 /\ e.email = "a@x"
    /\ 1 \in EndedTokens
    /\ response.kind = "login"
    /\ response.status = 401
    /\ response.email = "a@x"
    /\ getClientByEmail("a@x") = NoClient
    /\ db.sessions = {}

\* C39: an authenticated route (me, profile, delete-account) answers 200
\* only for a client whose isActive flag is set; here for a request served
\* with nothing else arriving or being called since it arrived, so that
\* the client's flag is the one the request found.
C39_InactiveClientRejected ==
    [][ ( /\ response'.kind \in AuthKinds
          /\ response'.status = 200
          /\ \E h \in handlers \ handlers' : h.rid = served )
           => \A c \in db.clients :
                 c.id = response'.clientId => c.isActive ]_vars

====
